---- MODULE Spec2Model ----
(***************************************************************************)
(* A model of the MarketingDashboard normalisation and analytics core:     *)
(*   src/core/data_loader.py  (DataLoader)                                 *)
(*   src/core/analyzer.py     (MarketingAnalyzer)                          *)
(*   src/config/settings.py   (COLUMN_MAPPING, COUNTRY_ISO_MAP)            *)
(*                                                                         *)
(* Text is modelled by TLA+ strings, handled character by character with   *)
(* Len, SubSeq and \o.  A DataFrame is a record [cols, rows]: cols is the  *)
(* sequence of column labels, rows a sequence of [idx, cells] where idx is *)
(* the row's index label and cells is positional, parallel to cols.  A     *)
(* cell is a tagged record: NaN, NA (pd.NA), NaT, Str(text), Num(integer), *)
(* Day(ordinal) or a float result Rat(n, d) / Inf.                         *)
(***************************************************************************)
EXTENDS Integers, Sequences, FiniteSets, TLC

VARIABLES
    files,      \* the input folder: what _find_input_files returns, with each file's content
    loaded,     \* DataLoader.load_data's outcome: not called yet, an error, or the table
    caller,     \* the table handed to MarketingAnalyzer(df): none yet, or a DataFrame
    adf,        \* MarketingAnalyzer.self.df: none before construction
    view,       \* the result of the analyzer view called last
    probe       \* input and result of a pure helper under test

vars == <<files, loaded, caller, adf, view, probe>>

----------------------------------------------------------------------------
(* Python str operations *)

UpperChars == "ABCDEFGHIJKLMNOPQRSTUVWXYZ"
LowerChars == "abcdefghijklmnopqrstuvwxyz"
DigitChars == "0123456789"

CharAt(s, i) == SubSeq(s, i, i)

\* position of the one-character string c in alphabet, 0 when absent
IndexIn(c, alphabet) ==
    LET hits == {i \in 1..Len(alphabet) : CharAt(alphabet, i) = c}
    IN  IF hits = {} THEN 0 ELSE CHOOSE i \in hits : TRUE

UpperSet == {CharAt(UpperChars, i) : i \in 1..Len(UpperChars)}
LowerSet == {CharAt(LowerChars, i) : i \in 1..Len(LowerChars)}
DigitSet == {CharAt(DigitChars, i) : i \in 1..Len(DigitChars)}
LowerOf == [c \in UpperSet |-> CharAt(LowerChars, IndexIn(c, UpperChars))]

LowerChar(c) == IF c \in UpperSet THEN LowerOf[c] ELSE c

RECURSIVE StrLower(_)
\* str.lower() (ASCII letters)
StrLower(s) ==
    IF Len(s) = 0 THEN "" ELSE LowerChar(CharAt(s, 1)) \o StrLower(SubSeq(s, 2, Len(s)))

\* str.isupper(): at least one cased character and no lower-case one
StrIsUpper(s) ==
    /\ \E i \in 1..Len(s) : CharAt(s, i) \in UpperSet
    /\ \A i \in 1..Len(s) : CharAt(s, i) \notin LowerSet

IsSpace(c) == c = " "

RECURSIVE LStrip(_)
LStrip(s) ==
    IF Len(s) > 0 /\ IsSpace(CharAt(s, 1)) THEN LStrip(SubSeq(s, 2, Len(s))) ELSE s

RECURSIVE RStrip(_)
RStrip(s) ==
    IF Len(s) > 0 /\ IsSpace(CharAt(s, Len(s))) THEN RStrip(SubSeq(s, 1, Len(s) - 1)) ELSE s

\* str.strip()
StrStrip(s) == RStrip(LStrip(s))

\* Python's `kw in s`
StrContains(s, kw) ==
    \E i \in 1..(Len(s) - Len(kw) + 1) : SubSeq(s, i, i + Len(kw) - 1) = kw

IsDigits(s) == Len(s) > 0 /\ \A i \in 1..Len(s) : CharAt(s, i) \in DigitSet

RECURSIVE DigitsValue(_)
DigitsValue(s) ==
    IF Len(s) = 0 THEN 0
    ELSE 10 * DigitsValue(SubSeq(s, 1, Len(s) - 1)) + (IndexIn(CharAt(s, Len(s)), DigitChars) - 1)

RECURSIVE NatToStr(_)
NatToStr(n) ==
    IF n < 10 THEN CharAt(DigitChars, n + 1)
    ELSE NatToStr(n \div 10) \o CharAt(DigitChars, (n % 10) + 1)

----------------------------------------------------------------------------
(* Cells *)

NaN == [k |-> "nan"]
NA == [k |-> "na"]
NaT == [k |-> "nat"]
Str(s) == [k |-> "str", v |-> s]
Num(n) == [k |-> "num", v |-> n]
Day(d) == [k |-> "day", v |-> d]
None == [k |-> "none"]

IsMissing(c) == c.k \in {"nan", "na", "nat"}

----------------------------------------------------------------------------
(* Configuration: src/config/settings.py and the module constants of        *)
(* src/core/data_loader.py                                                  *)

COLUMN_MAPPING == <<
    [canonical |-> "Date",        candidates |-> <<"date", "tarih", "day", "gun">>],
    [canonical |-> "Spend",       candidates |-> <<"amount spent", "cost", "total spent", "spend", "harcama", "tutar">>],
    [canonical |-> "Clicks",      candidates |-> <<"clicks", "link clicks", "tiklama", "tiklamalar", "click">>],
    [canonical |-> "Impressions", candidates |-> <<"impressions", "gosterim", "goruntulenme", "impression">>],
    [canonical |-> "Reach",       candidates |-> <<"reach", "erisim", "unique reach", "ulasim">>],
    [canonical |-> "Conversions", candidates |-> <<"conversions", "donusumler", "purchases", "satis", "leads", "results">>],
    [canonical |-> "Campaign",    candidates |-> <<"campaign name", "kampanya adi", "campaign", "kampanya">>],
    [canonical |-> "AdName",      candidates |-> <<"ad name", "reklam adi", "ad", "creative name", "reklam">>],
    [canonical |-> "Platform",    candidates |-> <<"platform", "source", "kaynak">>],
    [canonical |-> "Country",     candidates |-> <<"country", "region", "ulke", "bolge", "location">>],
    [canonical |-> "Age",         candidates |-> <<"age", "yas", "age range">>],
    [canonical |-> "Gender",      candidates |-> <<"gender", "cinsiyet">>],
    [canonical |-> "Device",      candidates |-> <<"device", "cihaz", "device platform">>],
    [canonical |-> "Placement",   candidates |-> <<"placement", "yerlesim", "platform position">>],
    [canonical |-> "Sentiment",   candidates |-> <<"sentiment", "sentiment score", "duygu", "puan">>] >>

COUNTRY_ISO_MAP == <<
    <<"turkey", "TUR">>, <<"turkiye", "TUR">>, <<"tr", "TUR">>,
    <<"usa", "USA">>, <<"united states", "USA">>, <<"us", "USA">>,
    <<"uk", "GBR">>, <<"united kingdom", "GBR">>, <<"germany", "DEU">>, <<"almanya", "DEU">> >>

\* list(COLUMN_MAPPING.keys())
CANONICAL_COLUMNS == [i \in 1..Len(COLUMN_MAPPING) |-> COLUMN_MAPPING[i].canonical]

METRIC_COLUMNS == <<"Spend", "Clicks", "Impressions", "Reach", "Conversions">>

SeqRange(q) == {q[i] : i \in 1..Len(q)}

----------------------------------------------------------------------------
(* pd.to_datetime(errors="coerce") and pd.to_numeric(errors="coerce")       *)

IsLeap(y) == (y % 4 = 0 /\ y % 100 # 0) \/ y % 400 = 0

DaysInMonth(y, m) ==
    IF m = 2 THEN (IF IsLeap(y) THEN 29 ELSE 28)
    ELSE IF m \in {4, 6, 9, 11} THEN 30 ELSE 31

\* days since 1970-01-01 of the civil date y-m-d (proleptic Gregorian)
DaysFromCivil(y, m, d) ==
    LET yy  == IF m <= 2 THEN y - 1 ELSE y
        era == yy \div 400
        yoe == yy - era * 400
        mp  == IF m > 2 THEN m - 3 ELSE m + 9
        doy == (153 * mp + 2) \div 5 + d - 1
        doe == yoe * 365 + yoe \div 4 - yoe \div 100 + doy
    IN  era * 146097 + doe - 719468

\* The date texts of the model are ISO "YYYY-MM-DD"; any other text is
\* unparseable (pandas also accepts other layouts, which the model's inputs
\* do not use).
ParseDate(s) ==
    IF /\ Len(s) = 10
       /\ CharAt(s, 5) = "-" /\ CharAt(s, 8) = "-"
       /\ IsDigits(SubSeq(s, 1, 4)) /\ IsDigits(SubSeq(s, 6, 7)) /\ IsDigits(SubSeq(s, 9, 10))
    THEN LET y == DigitsValue(SubSeq(s, 1, 4))
             m == DigitsValue(SubSeq(s, 6, 7))
             d == DigitsValue(SubSeq(s, 9, 10))
         IN  IF m \in 1..12 /\ d >= 1 /\ d <= DaysInMonth(y, m)
             THEN Day(DaysFromCivil(y, m, d)) ELSE NaT
    ELSE NaT

\* one element of pd.to_datetime(series, errors="coerce")
ToDatetime(c) ==
    CASE c.k = "str" -> ParseDate(StrStrip(c.v))
      [] c.k = "day" -> c
      [] c.k \in {"nan", "na", "nat"} -> NaT

\* one element of pd.to_numeric(series, errors="coerce"); the numbers of the
\* model are integers
ToNumeric(c) ==
    CASE c.k = "num" -> c
      [] c.k = "str" ->
            LET t == StrStrip(c.v)
            IN  IF IsDigits(t) THEN Num(DigitsValue(t))
                ELSE IF Len(t) > 1 /\ CharAt(t, 1) = "-" /\ IsDigits(SubSeq(t, 2, Len(t)))
                     THEN Num(0 - DigitsValue(SubSeq(t, 2, Len(t))))
                     ELSE NaN
      [] c.k \in {"nan", "na", "nat"} -> NaN

\* Series.fillna(value), one element
FillNa(c, value) == IF IsMissing(c) THEN value ELSE c

\* one element of Series.astype(str)
AsStr(c) ==
    CASE c.k = "str" -> c.v
      [] c.k = "nan" -> "nan"
      [] c.k = "na"  -> "<NA>"
      [] c.k = "nat" -> "NaT"
      [] c.k = "num" -> IF c.v < 0 THEN "-" \o NatToStr(0 - c.v) ELSE NatToStr(c.v)

----------------------------------------------------------------------------
(* DataFrame operations *)

\* position of the column labelled name, 0 when the frame has none
ColIndex(cols, name) ==
    LET hits == {i \in 1..Len(cols) : cols[i] = name}
    IN  IF hits = {} THEN 0 ELSE CHOOSE i \in hits : \A j \in hits : i <= j

HasCol(df, name) == ColIndex(df.cols, name) # 0

\* df.loc[row, name]
Cell(df, row, name) == row.cells[ColIndex(df.cols, name)]

\* df[name] = vals (one value per row): overwrite the column, or append it when new
AssignCol(df, name, vals) ==
    LET j == ColIndex(df.cols, name)
    IN  IF j # 0
        THEN [df EXCEPT !.rows = [r \in 1..Len(df.rows) |->
                    [df.rows[r] EXCEPT !.cells[j] = vals[r]]]]
        ELSE [df EXCEPT !.cols = Append(df.cols, name),
                        !.rows = [r \in 1..Len(df.rows) |->
                    [df.rows[r] EXCEPT !.cells = Append(df.rows[r].cells, vals[r])]]]

\* df[name] as a sequence of cells
Column(df, name) == [r \in 1..Len(df.rows) |-> Cell(df, df.rows[r], name)]

RECURSIVE SelectAt(_, _)
\* the elements of sequence q at the positions in keep, in order
SelectAt(q, keep) ==
    IF Len(q) = 0 THEN <<>>
    ELSE LET n == Len(q)
             front == SelectAt(SubSeq(q, 1, n - 1), keep)
         IN  IF n \in keep THEN Append(front, q[n]) ELSE front

\* df.dropna(subset=[name])
DropNa(df, name) ==
    [df EXCEPT !.rows = SelectAt(df.rows,
        {r \in 1..Len(df.rows) : ~IsMissing(Cell(df, df.rows[r], name))})]

\* df.empty
IsEmpty(df) == Len(df.rows) = 0 \/ Len(df.cols) = 0

RECURSIVE UnionCols(_, _)
\* the column labels of pd.concat(frames): their union, in order of first appearance
UnionCols(acc, frames) ==
    IF Len(frames) = 0 THEN acc
    ELSE LET c == Head(frames).cols
                 fresh == SelectAt(c, {i \in 1..Len(c) : c[i] \notin SeqRange(acc)})
         IN  UnionCols(acc \o fresh, Tail(frames))

RECURSIVE ConcatRows(_, _)
ConcatRows(cols, frames) ==
    IF Len(frames) = 0 THEN <<>>
    ELSE LET f == Head(frames)
             widen(row) == [j \in 1..Len(cols) |->
                              IF HasCol(f, cols[j]) THEN Cell(f, row, cols[j]) ELSE NaN]
         IN  [r \in 1..Len(f.rows) |-> [idx |-> 0, cells |-> widen(f.rows[r])]]
             \o ConcatRows(cols, Tail(frames))

\* pd.concat(frames, ignore_index=True)
Concat(frames) ==
    LET cols == UnionCols(<<>>, frames)
        rows == ConcatRows(cols, frames)
    IN  [k |-> "df", cols |-> cols,
         rows |-> [r \in 1..Len(rows) |-> [rows[r] EXCEPT !.idx = r - 1]]]

----------------------------------------------------------------------------
(* DataLoader: src/core/data_loader.py *)

\* A file of the input folder: [name, ok, cols, rows].  ok is whether
\* pd.read_csv / pd.read_excel succeeds on it; cols and rows (sequences of
\* cells, parallel to cols) are what the reader returns then.
read_single_file(f) ==
    IF f.ok
    THEN [k |-> "df", cols |-> f.cols,
          rows |-> [r \in 1..Len(f.rows) |-> [idx |-> r - 1, cells |-> f.rows[r]]]]
    ELSE None

\* infer_platform_from_filename without filename.lower()
infer_platform_CaseSensitive(filename) ==
    LET name == filename
    IN  IF StrContains(name, "facebook") \/ StrContains(name, "meta") THEN "Facebook"
        ELSE IF StrContains(name, "linkedin") THEN "LinkedIn"
        ELSE IF StrContains(name, "google") \/ StrContains(name, "adwords")
                \/ StrContains(name, "ads_") THEN "Google Ads"
        ELSE "Unknown"

infer_platform_from_filename(filename) ==
    LET name == StrLower(filename)
    IN  IF StrContains(name, "facebook") \/ StrContains(name, "meta") THEN "Facebook"
        ELSE IF StrContains(name, "linkedin") THEN "LinkedIn"
        ELSE IF StrContains(name, "google") \/ StrContains(name, "adwords")
                \/ StrContains(name, "ads_") THEN "Google Ads"
        ELSE "Unknown"

\* {k.lower(): v for k, v in COUNTRY_ISO_MAP.items()}
lower_map == [i \in 1..Len(COUNTRY_ISO_MAP) |->
                 <<StrLower(COUNTRY_ISO_MAP[i][1]), COUNTRY_ISO_MAP[i][2]>>]

\* lower_map.get(key, default): on equal keys the later entry of the dict wins
MapGet(pairs, key, default) ==
    LET hits == {i \in 1..Len(pairs) : pairs[i][1] = key}
    IN  IF hits = {} THEN default
        ELSE pairs[CHOOSE i \in hits : \A j \in hits : j <= i][2]

\* map_country with the table looked up by the value as written, not lower-cased
map_country_CaseSensitive(val) ==
    IF val = "" \/ StrLower(val) \in {"nan", "none"} THEN val
    ELSE IF Len(val) = 3 /\ StrIsUpper(val) THEN val
    ELSE MapGet(lower_map, val, val)

map_country(val) ==
    IF val = "" \/ StrLower(val) \in {"nan", "none"} THEN val
    ELSE IF Len(val) = 3 /\ StrIsUpper(val) THEN val
    ELSE MapGet(lower_map, StrLower(val), val)

\* {c.lower(): c for c in df.columns}, as <<key, original>> pairs in column order
lower_to_original(cols) == [i \in 1..Len(cols) |-> <<StrLower(cols[i]), cols[i]>>]

\* COLUMN_MAPPING with every candidate lower-cased (cand.lower())
CandidatesLower == [i \in 1..Len(COLUMN_MAPPING) |->
    [j \in 1..Len(COLUMN_MAPPING[i].candidates) |-> StrLower(COLUMN_MAPPING[i].candidates[j])]]

\* the inner loop of _standardize_columns for the i-th canonical field:
\* None when the canonical label exists or no candidate matches
found_original(i, cols, l2o) ==
    IF COLUMN_MAPPING[i].canonical \in SeqRange(cols) THEN None
    ELSE LET cands == CandidatesLower[i]
             hits == {j \in 1..Len(cands) : \E n \in 1..Len(l2o) : l2o[n][1] = cands[j]}
         IN  IF hits = {} THEN None
             ELSE Str(MapGet(l2o, cands[CHOOSE j \in hits : \A h \in hits : j <= h], ""))

\* rename_map, as <<original, canonical>> pairs in the order they are set
rename_map(cols) ==
    LET l2o == lower_to_original(cols)
        found == [i \in 1..Len(COLUMN_MAPPING) |-> found_original(i, cols, l2o)]
        pairs == [i \in 1..Len(COLUMN_MAPPING) |->
                     IF found[i] = None THEN <<>> ELSE <<found[i].v, COLUMN_MAPPING[i].canonical>>]
    IN  SelectAt(pairs, {i \in 1..Len(pairs) : pairs[i] # <<>>})

\* df.rename(columns=rename_map)
Rename(df, rmap) ==
    [df EXCEPT !.cols = [i \in 1..Len(df.cols) |-> MapGet(rmap, df.cols[i], df.cols[i])]]

RECURSIVE AddMissingColumns_MetricsOnly(_, _)
\* AddMissingColumns that defaults the metric columns only
AddMissingColumns_MetricsOnly(df, i) ==
    IF i > Len(CANONICAL_COLUMNS) THEN df
    ELSE LET col == CANONICAL_COLUMNS[i]
         IN  IF HasCol(df, col) \/ col \notin SeqRange(METRIC_COLUMNS)
             THEN AddMissingColumns_MetricsOnly(df, i + 1)
             ELSE AddMissingColumns_MetricsOnly(
                      AssignCol(df, col, [r \in 1..Len(df.rows) |-> Num(0)]), i + 1)

RECURSIVE AddMissingColumns(_, _)
\* step 2 of _standardize_columns, from the i-th canonical column on
AddMissingColumns(df, i) ==
    IF i > Len(CANONICAL_COLUMNS) THEN df
    ELSE LET col == CANONICAL_COLUMNS[i]
             dflt == IF col \in SeqRange(METRIC_COLUMNS) THEN Num(0) ELSE NA
         IN  IF HasCol(df, col) THEN AddMissingColumns(df, i + 1)
             ELSE AddMissingColumns(AssignCol(df, col, [r \in 1..Len(df.rows) |-> dflt]), i + 1)

CleanDate(df) ==
    IF HasCol(df, "Date")
    THEN LET c == Column(df, "Date")
         IN  DropNa(AssignCol(df, "Date", [r \in 1..Len(c) |-> ToDatetime(c[r])]), "Date")
    ELSE AssignCol(df, "Date", [r \in 1..Len(df.rows) |-> NaT])

RECURSIVE CleanMetrics(_, _)
CleanMetrics(df, i) ==
    IF i > Len(METRIC_COLUMNS) THEN df
    ELSE LET c == Column(df, METRIC_COLUMNS[i])
         IN  CleanMetrics(AssignCol(df, METRIC_COLUMNS[i],
                    [r \in 1..Len(c) |-> FillNa(ToNumeric(c[r]), Num(0))]), i + 1)

CleanPlatform(df) ==
    IF HasCol(df, "Platform")
    THEN LET c == Column(df, "Platform")
             stripped == [r \in 1..Len(c) |-> StrStrip(AsStr(c[r]))]
         IN  IF HasCol(df, "SourceFile")
             THEN LET src == Column(df, "SourceFile")
                  IN  AssignCol(df, "Platform", [r \in 1..Len(c) |->
                          IF stripped[r] \in {"", "nan", "NaN"}
                          THEN Str(infer_platform_from_filename(AsStr(src[r])))
                          ELSE Str(stripped[r])])
             ELSE AssignCol(df, "Platform", [r \in 1..Len(c) |-> Str(stripped[r])])
    ELSE IF HasCol(df, "SourceFile")
    THEN LET src == Column(df, "SourceFile")
         IN  AssignCol(df, "Platform", [r \in 1..Len(src) |->
                 Str(infer_platform_from_filename(AsStr(src[r])))])
    ELSE AssignCol(df, "Platform", [r \in 1..Len(df.rows) |-> NA])

CleanCountry(df) ==
    IF HasCol(df, "Country")
    THEN LET c == Column(df, "Country")
         IN  AssignCol(df, "Country", [r \in 1..Len(c) |-> Str(map_country(StrStrip(AsStr(c[r]))))])
    ELSE df

TextColumns == <<"Age", "Gender", "Device", "Placement", "Campaign", "AdName">>

RECURSIVE CleanText(_, _)
CleanText(df, i) ==
    IF i > Len(TextColumns) THEN df
    ELSE IF HasCol(df, TextColumns[i])
         THEN LET c == Column(df, TextColumns[i])
              IN  CleanText(AssignCol(df, TextColumns[i],
                        [r \in 1..Len(c) |-> Str(StrStrip(AsStr(c[r])))]), i + 1)
         ELSE CleanText(df, i + 1)

CleanSentiment(df) ==
    IF HasCol(df, "Sentiment")
    THEN LET c == Column(df, "Sentiment")
         IN  AssignCol(df, "Sentiment", [r \in 1..Len(c) |-> ToNumeric(c[r])])
    ELSE df

clean_types_and_values(df) ==
    CleanSentiment(CleanText(CleanCountry(CleanPlatform(CleanMetrics(CleanDate(df), 1))), 1))

standardize_columns(df) ==
    clean_types_and_values(AddMissingColumns(Rename(df, rename_map(df.cols)), 1))

\* the frames list of load_data: each readable, non-empty file, tagged with SourceFile
Frames(fs) ==
    LET read == [i \in 1..Len(fs) |-> read_single_file(fs[i])]
        kept == {i \in 1..Len(fs) : read[i] # None /\ ~IsEmpty(read[i])}
        tagged == [i \in 1..Len(fs) |->
                      IF i \in kept
                      THEN AssignCol(read[i], "SourceFile",
                                     [r \in 1..Len(read[i].rows) |-> Str(fs[i].name)])
                      ELSE None]
    IN  SelectAt(tagged, kept)

\* load_data that gives up on the first file the reader fails on
load_data_AbortOnFailure(fs) ==
    IF Len(fs) = 0 THEN [k |-> "error", type |-> "FileNotFoundError"]
    ELSE IF \E i \in 1..Len(fs) : read_single_file(fs[i]) = None
         THEN [k |-> "error", type |-> "ValueError"]
    ELSE LET frames == Frames(fs)
         IN  IF Len(frames) = 0 THEN [k |-> "error", type |-> "ValueError"]
             ELSE standardize_columns(Concat(frames))

load_data(fs) ==
    IF Len(fs) = 0 THEN [k |-> "error", type |-> "FileNotFoundError"]
    ELSE LET frames == Frames(fs)
         IN  IF Len(frames) = 0 THEN [k |-> "error", type |-> "ValueError"]
             ELSE standardize_columns(Concat(frames))

----------------------------------------------------------------------------
(* Floating-point values: exact rationals, with the IEEE results of a       *)
(* division by zero (inf, nan) kept apart                                   *)

Inf(sign) == [k |-> "inf", s |-> sign]

Abs(x) == IF x < 0 THEN 0 - x ELSE x

RECURSIVE Gcd(_, _)
Gcd(a, b) == IF b = 0 THEN a ELSE Gcd(b, a % b)

\* the number n/d (d # 0) in lowest terms; an integral value is Num
MkRat(n, d) ==
    LET g == Gcd(Abs(n), Abs(d))
        sn == IF d < 0 THEN 0 - n ELSE n
    IN  IF Abs(d) \div g = 1 THEN Num(sn \div g)
        ELSE [k |-> "rat", n |-> sn \div g, d |-> Abs(d) \div g]

NumerOf(c) == IF c.k = "num" THEN c.v ELSE c.n
DenomOf(c) == IF c.k = "num" THEN 1 ELSE c.d
IsNumber(c) == c.k \in {"num", "rat"}

\* x / y on float64 operands (numpy semantics: no exception on a zero divisor)
FDiv(x, y) ==
    IF ~IsNumber(x) \/ ~IsNumber(y) THEN NaN
    ELSE IF NumerOf(y) = 0
         THEN (IF NumerOf(x) = 0 THEN NaN ELSE Inf(IF NumerOf(x) > 0 THEN 1 ELSE -1))
         ELSE MkRat(NumerOf(x) * DenomOf(y), DenomOf(x) * NumerOf(y))

FMul(x, y) ==
    IF ~IsNumber(x) \/ ~IsNumber(y) THEN NaN
    ELSE MkRat(NumerOf(x) * NumerOf(y), DenomOf(x) * DenomOf(y))

FAdd(x, y) ==
    IF ~IsNumber(x) \/ ~IsNumber(y) THEN NaN
    ELSE MkRat(NumerOf(x) * DenomOf(y) + NumerOf(y) * DenomOf(x), DenomOf(x) * DenomOf(y))

\* FPositive with the comparison written >= instead of >
FPositive_OrZero(x) == IsNumber(x) /\ NumerOf(x) >= 0

\* x > 0 on a float (False for nan)
FPositive(x) == IsNumber(x) /\ NumerOf(x) > 0

RECURSIVE FSum(_)
\* Series.sum(): missing values are skipped
FSum(q) ==
    IF Len(q) = 0 THEN Num(0)
    ELSE IF IsNumber(Head(q)) THEN FAdd(Head(q), FSum(Tail(q))) ELSE FSum(Tail(q))

\* np.where(cond, x, y), one element: x and y are both computed, cond selects
NpWhere(cond, x, y) == IF cond THEN x ELSE y

\* np.where(den > 0, num / den, np.nan), one element
RatioOrNaN(num, den) == NpWhere(FPositive(den), FDiv(num, den), NaN)

----------------------------------------------------------------------------
(* Ordering of group keys (groupby sorts its keys) *)

\* the characters the model's texts use, in code-point order
CharOrder == " -.0123456789<>ABCDEFGHIJKLMNOPQRSTUVWXYZ_abcdefghijklmnopqrstuvwxyz"

RECURSIVE StrLess(_, _)
StrLess(a, b) ==
    IF Len(b) = 0 THEN FALSE
    ELSE IF Len(a) = 0 THEN TRUE
    ELSE LET x == IndexIn(CharAt(a, 1), CharOrder)
             y == IndexIn(CharAt(b, 1), CharOrder)
         IN  IF x # y THEN x < y
             ELSE StrLess(SubSeq(a, 2, Len(a)), SubSeq(b, 2, Len(b)))

CellLess(a, b) ==
    IF a.k = "str" /\ b.k = "str" THEN StrLess(a.v, b.v)
    ELSE IF a.k = "day" /\ b.k = "day" THEN a.v < b.v
    ELSE IF IsNumber(a) /\ IsNumber(b) THEN NumerOf(a) * DenomOf(b) < NumerOf(b) * DenomOf(a)
    ELSE FALSE

RECURSIVE KeyLess(_, _)
\* lexicographic order on key tuples of equal length
KeyLess(a, b) ==
    IF Len(a) = 0 THEN FALSE
    ELSE IF Head(a) # Head(b) THEN CellLess(Head(a), Head(b))
    ELSE KeyLess(Tail(a), Tail(b))

RECURSIVE SortKeys(_)
\* a finite set of key tuples as an ascending sequence
SortKeys(S) ==
    IF S = {} THEN <<>>
    ELSE LET m == CHOOSE x \in S : \A y \in S : x = y \/ ~KeyLess(y, x)
         IN  <<m>> \o SortKeys(S \ {m})

----------------------------------------------------------------------------
(* groupby(keys).agg({col: "sum"}).reset_index() *)

EmptyFrame == [k |-> "df", cols |-> <<>>, rows |-> <<>>]

KeyOf(df, row, keys) == [i \in 1..Len(keys) |-> Cell(df, row, keys[i])]

\* GroupKeys with dropna=False: a missing key forms a group of its own
GroupKeys_KeepNa(df, keys) == {KeyOf(df, df.rows[r], keys) : r \in 1..Len(df.rows)}

\* rows with a missing key are left out of every group (dropna=True)
GroupKeys(df, keys) ==
    {KeyOf(df, df.rows[r], keys) : r \in
        {r \in 1..Len(df.rows) : \A i \in 1..Len(keys) : ~IsMissing(Cell(df, df.rows[r], keys[i]))}}

GroupSum(df, keys, key, col) ==
    LET members == {r \in 1..Len(df.rows) : KeyOf(df, df.rows[r], keys) = key}
    IN  FSum(SelectAt(Column(df, col), members))

GroupBySum(df, keys, sums) ==
    LET sorted == SortKeys(GroupKeys(df, keys))
    IN  [k |-> "df", cols |-> keys \o sums,
         rows |-> [g \in 1..Len(sorted) |->
             [idx |-> g - 1,
              cells |-> sorted[g] \o [j \in 1..Len(sums) |-> GroupSum(df, keys, sorted[g], sums[j])]]]]

\* df[name] = np.where(df[den] > 0, df[num] / df[den], np.nan)
AddRatio(df, name, num, den) ==
    AssignCol(df, name, [r \in 1..Len(df.rows) |->
        RatioOrNaN(Cell(df, df.rows[r], num), Cell(df, df.rows[r], den))])

----------------------------------------------------------------------------
(* MarketingAnalyzer: src/core/analyzer.py *)

BaseMetrics == <<"Spend", "Clicks", "Impressions", "Conversions">>

\* analyze_conversion_prob(min_clicks=30), detect_cpc_anomalies(window=7),
\* and analyze_forecast's history floor and horizon
DefaultMinClicks == 30
DefaultWindow == 7
MinForecastDays == 5
Horizon == 15

RECURSIVE CoerceBaseMetrics(_, _)
\* df[col] = pd.to_numeric(df.get(col, 0), errors="coerce").fillna(0.0)
CoerceBaseMetrics(df, i) ==
    IF i > Len(BaseMetrics) THEN df
    ELSE LET c == Column(df, BaseMetrics[i])
         IN  CoerceBaseMetrics(AssignCol(df, BaseMetrics[i],
                    [r \in 1..Len(c) |-> FillNa(ToNumeric(c[r]), Num(0))]), i + 1)

prepare_base_metrics(df) ==
    LET m == CoerceBaseMetrics(df, 1)
        withCPC == AddRatio(m, "CPC", "Spend", "Clicks")
        withCTR == AddRatio(withCPC, "CTR", "Clicks", "Impressions")
        withCVR == AddRatio(withCTR, "CVR", "Conversions", "Clicks")
    IN  IF HasCol(withCVR, "Date")
        THEN LET c == Column(withCVR, "Date")
             IN  AssignCol(withCVR, "Date", [r \in 1..Len(c) |-> ToDatetime(c[r])])
        ELSE withCVR

\* MarketingAnalyzer(df): the stored self.df, or the error raised.  With a
\* base metric column absent df.get(col, 0) is the scalar 0, and
\* pd.to_numeric(0).fillna raises AttributeError.
MarketingAnalyzer(df) ==
    IF df.k # "df" \/ IsEmpty(df) THEN [k |-> "error", type |-> "ValueError"]
    ELSE IF \E i \in 1..Len(BaseMetrics) : ~HasCol(df, BaseMetrics[i])
         THEN [k |-> "error", type |-> "AttributeError"]
         ELSE prepare_base_metrics(df)

get_kpis(df) ==
    LET total_spend  == FSum(Column(df, "Spend"))
        total_clicks == FSum(Column(df, "Clicks"))
        total_impr   == FSum(Column(df, "Impressions"))
        total_conv   == FSum(Column(df, "Conversions"))
        s == IF HasCol(df, "Sentiment")
             THEN LET c == Column(df, "Sentiment")
                      n == [r \in 1..Len(c) |-> ToNumeric(c[r])]
                  IN  SelectAt(n, {r \in 1..Len(n) : IsNumber(n[r])})
             ELSE <<>>
    IN  [k |-> "kpis",
         total_spend |-> total_spend,
         total_clicks |-> total_clicks,
         total_impressions |-> total_impr,
         total_conversions |-> total_conv,
         avg_cpc |-> IF FPositive(total_clicks) THEN FDiv(total_spend, total_clicks) ELSE Num(0),
         avg_ctr |-> IF FPositive(total_impr)
                     THEN FMul(FDiv(total_clicks, total_impr), Num(100)) ELSE Num(0),
         avg_cpm |-> IF FPositive(total_impr)
                     THEN FDiv(total_spend, FDiv(total_impr, Num(1000))) ELSE Num(0),
         avg_sentiment |-> IF Len(s) = 0 THEN Num(0) ELSE FDiv(FSum(s), Num(Len(s)))]

get_daily_trends(df) ==
    IF ~HasCol(df, "Date") \/ \A r \in 1..Len(df.rows) : IsMissing(Cell(df, df.rows[r], "Date"))
    THEN EmptyFrame
    ELSE LET group_cols == IF HasCol(df, "Platform") THEN <<"Date", "Platform">> ELSE <<"Date">>
             df_t == GroupBySum(df, group_cols, <<"Spend", "Clicks", "Impressions", "Conversions">>)
         IN  AddRatio(AddRatio(AddRatio(df_t, "CPC", "Spend", "Clicks"),
                               "CTR", "Clicks", "Impressions"),
                      "CVR", "Conversions", "Clicks")

analyze_platform_efficiency(df) ==
    IF ~HasCol(df, "Platform") THEN EmptyFrame
    ELSE LET g == GroupBySum(df, <<"Platform">>, <<"Spend", "Impressions", "Clicks", "Conversions">>)
             r3 == AddRatio(AddRatio(AddRatio(g, "CTR", "Clicks", "Impressions"),
                                     "CVR", "Conversions", "Clicks"),
                            "CPC", "Spend", "Clicks")
         IN  AssignCol(r3, "CPM", [r \in 1..Len(r3.rows) |->
                 NpWhere(FPositive(Cell(r3, r3.rows[r], "Impressions")),
                         FDiv(Cell(r3, r3.rows[r], "Spend"),
                              FDiv(Cell(r3, r3.rows[r], "Impressions"), Num(1000))),
                         NaN)])

geo_performance(df) ==
    IF ~HasCol(df, "Country") THEN EmptyFrame
    ELSE LET g == GroupBySum(df, <<"Country">>, <<"Spend", "Clicks", "Impressions", "Conversions">>)
         IN  AddRatio(AddRatio(AddRatio(g, "CPC", "Spend", "Clicks"),
                               "CTR", "Clicks", "Impressions"),
                      "CVR", "Conversions", "Clicks")

analyze_breakdown(self_df) ==
    IF ~HasCol(self_df, "Platform") THEN EmptyFrame
    ELSE LET unknown == [r \in 1..Len(self_df.rows) |-> Str("Unknown")]
             d1 == IF HasCol(self_df, "Device") THEN self_df
                   ELSE AssignCol(self_df, "Device", unknown)
             d2 == IF HasCol(d1, "Placement") THEN d1 ELSE AssignCol(d1, "Placement", unknown)
             g == GroupBySum(d2, <<"Platform", "Device", "Placement">>,
                             <<"Spend", "Clicks", "Conversions">>)
         IN  AddRatio(g, "CVR", "Conversions", "Clicks")

analyze_conversion_prob(self_df, min_clicks) ==
    IF ~HasCol(self_df, "Age") THEN EmptyFrame
    ELSE LET df == [self_df EXCEPT !.rows = SelectAt(self_df.rows,
                        {r \in 1..Len(self_df.rows) :
                            FPositive(Cell(self_df, self_df.rows[r], "Clicks"))})]
         IN  IF IsEmpty(df) THEN EmptyFrame
             ELSE LET group_cols == IF HasCol(df, "Gender") THEN <<"Age", "Gender">> ELSE <<"Age">>
                      g == GroupBySum(df, group_cols, <<"Clicks", "Conversions", "Spend">>)
                      grouped == [g EXCEPT !.rows = SelectAt(g.rows,
                                    {r \in 1..Len(g.rows) :
                                        ~CellLess(Cell(g, g.rows[r], "Clicks"), Num(min_clicks))})]
                  IN  IF IsEmpty(grouped) THEN EmptyFrame
                      ELSE LET cr == AssignCol(grouped, "CR", [r \in 1..Len(grouped.rows) |->
                                        NpWhere(FPositive(Cell(grouped, grouped.rows[r], "Clicks")),
                                                FMul(FDiv(Cell(grouped, grouped.rows[r], "Conversions"),
                                                          Cell(grouped, grouped.rows[r], "Clicks")),
                                                     Num(100)),
                                                NaN)])
                           IN  AddRatio(cr, "CPC", "Spend", "Clicks")

FSub(x, y) == FAdd(x, FMul(y, Num(-1)))

\* x > y on floats (False when either is nan)
FGreater(x, y) == IsNumber(x) /\ IsNumber(y) /\ FPositive(FSub(x, y))

\* the square root of a non-negative number, kept symbolic unless it is 0
Sqrt(x) == IF ~IsNumber(x) THEN NaN ELSE IF NumerOf(x) = 0 THEN Num(0) ELSE [k |-> "sqrt", of |-> x]

\* m + c * sd, sd a Sqrt value
MeanPlusSd(m, c, sd) ==
    IF ~IsNumber(m) \/ sd.k = "nan" THEN NaN
    ELSE IF sd.k = "num" THEN m
    ELSE [k |-> "msd", m |-> m, c |-> c, v |-> sd.of]

\* x > bound, bound a MeanPlusSd value with a positive coefficient
ExceedsBound(x, bound) ==
    IF ~IsNumber(x) \/ bound.k = "nan" THEN FALSE
    ELSE IF IsNumber(bound) THEN FGreater(x, bound)
    ELSE LET diff == FSub(x, bound.m)
         IN  FPositive(diff) /\ FGreater(FMul(diff, diff), FMul(Num(bound.c * bound.c), bound.v))

\* RollingWindow with min_periods = 1: a window cut short at the start of
\* the series, without its missing values
RollingWindow_MinPeriodsOne(q, r, window) ==
    LET from == IF r < window THEN 1 ELSE r - window + 1
    IN  SelectAt(q, {i \in from..r : IsNumber(q[i])})

\* Series.rolling(window) at position r: the window's values, or <<>> when
\* fewer than window observations (min_periods = window) are available
RollingWindow(q, r, window) ==
    IF r < window \/ \E i \in (r - window + 1)..r : ~IsNumber(q[i]) THEN <<>>
    ELSE SubSeq(q, r - window + 1, r)

\* .rolling(window).mean()
RollingMean(q, window) ==
    [r \in 1..Len(q) |->
        LET w == RollingWindow(q, r, window)
        IN  IF Len(w) = 0 THEN NaN ELSE FDiv(FSum(w), Num(Len(w)))]

\* .rolling(window).std(): the sample standard deviation (ddof = 1)
RollingStd(q, window) ==
    [r \in 1..Len(q) |->
        LET w == RollingWindow(q, r, window)
            mean == FDiv(FSum(w), Num(Len(w)))
            sq == [i \in 1..Len(w) |-> FMul(FSub(w[i], mean), FSub(w[i], mean))]
        IN  IF Len(w) = 0 THEN NaN ELSE Sqrt(FDiv(FSum(sq), Num(Len(w) - 1)))]

detect_cpc_anomalies(self_df, window) ==
    LET df == get_daily_trends(self_df)
    IN  IF IsEmpty(df) THEN EmptyFrame
        ELSE LET cpc == Column(df, "CPC")
                 rolling_mean == RollingMean(cpc, window)
                 rolling_std == RollingStd(cpc, window)
                 upper == [r \in 1..Len(cpc) |-> MeanPlusSd(rolling_mean[r], 2, rolling_std[r])]
                 lower == [r \in 1..Len(cpc) |-> MeanPlusSd(rolling_mean[r], -2, rolling_std[r])]
                 d1 == AssignCol(df, "rolling_mean", rolling_mean)
                 d2 == AssignCol(d1, "rolling_std", rolling_std)
                 d3 == AssignCol(d2, "Upper", upper)
                 d4 == AssignCol(d3, "Lower", lower)
             IN  AssignCol(d4, "Is_Anomaly",
                     [r \in 1..Len(cpc) |-> [k |-> "bool", v |-> ExceedsBound(cpc[r], upper[r])]])

RECURSIVE CumSum(_)
\* Series.cumsum()
CumSum(q) ==
    IF Len(q) = 0 THEN <<>>
    ELSE LET front == CumSum(SubSeq(q, 1, Len(q) - 1))
         IN  Append(front, IF Len(front) = 0 THEN q[1] ELSE FAdd(front[Len(front)], q[Len(q)]))

\* np.polyfit(t, y, 1): <<slope, intercept>> of the least-squares line
PolyFit1(t, y) ==
    LET n == Num(Len(t))
        St == FSum(t)
        Sy == FSum(y)
        Stt == FSum([i \in 1..Len(t) |-> FMul(t[i], t[i])])
        Sty == FSum([i \in 1..Len(t) |-> FMul(t[i], y[i])])
        slope == FDiv(FSub(FMul(n, Sty), FMul(St, Sy)), FSub(FMul(n, Stt), FMul(St, St)))
    IN  <<slope, FDiv(FSub(Sy, FMul(slope, St)), n)>>

\* PolyVal1 reading the coefficients lowest degree first
PolyVal1_LowestFirst(coeffs, x) == FAdd(FMul(coeffs[2], x), coeffs[1])

\* np.polyval(coeffs, x) for a degree-1 polynomial
PolyVal1(coeffs, x) == FAdd(FMul(coeffs[1], x), coeffs[2])

\* analyze_forecast with the minimum taken on the rows of the table, not on
\* its distinct days
analyze_forecast_ByRowCount(self_df) ==
    LET trends == get_daily_trends(self_df)
    IN  IF IsEmpty(trends) THEN [k |-> "forecast", daily |-> trends, f_dates |-> <<>>, f_vals |-> <<>>]
        ELSE LET g == GroupBySum(trends, <<"Date">>, <<"Spend">>)
                 withCum == AssignCol(g, "Cum", CumSum(Column(g, "Spend")))
                 daily == AssignCol(withCum, "t", [r \in 1..Len(g.rows) |-> Num(r - 1)])
             IN  IF Len(self_df.rows) < MinForecastDays
                 THEN [k |-> "forecast", daily |-> daily, f_dates |-> <<>>, f_vals |-> <<>>]
                 ELSE LET coeffs == PolyFit1(Column(daily, "t"), Column(daily, "Cum"))
                          last_t == Len(daily.rows) - 1
                          last_date == Cell(daily, daily.rows[Len(daily.rows)], "Date")
                      IN  [k |-> "forecast", daily |-> daily,
                           f_dates |-> [i \in 1..Horizon |-> Day(last_date.v + i)],
                           f_vals |-> [i \in 1..Horizon |-> PolyVal1(coeffs, Num(last_t + i))]]

analyze_forecast(self_df) ==
    LET trends == get_daily_trends(self_df)
    IN  IF IsEmpty(trends) THEN [k |-> "forecast", daily |-> trends, f_dates |-> <<>>, f_vals |-> <<>>]
        ELSE LET g == GroupBySum(trends, <<"Date">>, <<"Spend">>)
                 withCum == AssignCol(g, "Cum", CumSum(Column(g, "Spend")))
                 daily == AssignCol(withCum, "t", [r \in 1..Len(g.rows) |-> Num(r - 1)])
             IN  IF Len(daily.rows) < MinForecastDays
                 THEN [k |-> "forecast", daily |-> daily, f_dates |-> <<>>, f_vals |-> <<>>]
                 ELSE LET coeffs == PolyFit1(Column(daily, "t"), Column(daily, "Cum"))
                          last_t == Len(daily.rows) - 1
                          last_date == Cell(daily, daily.rows[Len(daily.rows)], "Date")
                      IN  [k |-> "forecast", daily |-> daily,
                           f_dates |-> [i \in 1..Horizon |-> Day(last_date.v + i)],
                           f_vals |-> [i \in 1..Horizon |-> PolyVal1(coeffs, Num(last_t + i))]]

----------------------------------------------------------------------------
(* Bounded inputs *)

\* the files of the input folder, in the order _find_input_files lists them
FileNames == <<"Meta_Jan.csv", "export.xlsx">>

\* a source column: its label and the cell of the file's single row
DateChoices ==
    {<<n, Str(t)>> : n \in {"Date", "date"}, t \in {"2024-01-02", "2024-02-30"}}
SpendChoices ==
    {<<n, c>> : n \in {"Amount Spent", "AMOUNT SPENT"}, c \in {Num(5), Str("abc")}}
PlatformChoices ==
    {<<n, Str(t)>> : n \in {"Platform", "source"}, t \in {" TikTok ", "  "}}

Absent == <<>>

\* the columns present, as <<label, cell>> pairs in file order
Present(d, s, p) == SelectAt(<<d, s, p>>, {i \in 1..3 : <<d, s, p>>[i] # Absent})

\* what one file can hold: a single row over any choice of the three column
\* groups, a header without rows, or content the reader fails on
FileContents ==
    {[ok |-> TRUE,
      cols |-> [i \in 1..Len(Present(d, s, p)) |-> Present(d, s, p)[i][1]],
      rows |-> << [i \in 1..Len(Present(d, s, p)) |-> Present(d, s, p)[i][2]] >>] :
        d \in DateChoices \cup {Absent},
        s \in SpendChoices \cup {Absent},
        p \in PlatformChoices \cup {Absent}}
    \cup {[ok |-> TRUE, cols |-> <<"Date", "Spend">>, rows |-> <<>>],
          [ok |-> FALSE, cols |-> <<>>, rows |-> <<>>]}

Named(content, i) ==
    [name |-> FileNames[i], ok |-> content.ok, cols |-> content.cols, rows |-> content.rows]

\* every folder of at most n files
Folders(n) ==
    UNION {{[i \in 1..m |-> Named(c[i], i)] : c \in [1..m -> FileContents]} : m \in 0..n}

\* tables handed to MarketingAnalyzer directly
MaxRows == 2

CallerCols == <<"Date", "Platform", "Country", "Age", "Device", "Placement",
                "Spend", "Clicks", "Impressions", "Conversions">>

CallerRows ==
    {<<Str(d), Str(p), Str("TUR"), Str("25-34"), Str("mobile"), Str("feed"),
       Num(5), Num(c), Num(i), Num(3)>> :
        d \in {"2024-01-02", "soon"}, p \in {"Facebook", "LinkedIn"},
        c \in {0, 30}, i \in {0, 100}}

CallerTables ==
    {[k |-> "df", cols |-> CallerCols,
      rows |-> [r \in 1..Len(q) |-> [idx |-> r - 1, cells |-> q[r]]]] :
        q \in UNION {[1..m -> CallerRows] : m \in 0..MaxRows}}

RECURSIVE Join(_)
\* the concatenation of a sequence of texts
Join(q) == IF Len(q) = 0 THEN "" ELSE Head(q) \o Join(Tail(q))

\* every text made of at most n of the given parts
TextsOf(parts, n) == {Join(q) : q \in UNION {[1..m -> parts] : m \in 0..n}}

\* source identifiers: file names put together from keyword pieces
MaxNameParts == 3
NameParts == {"facebook", "Meta", "LINKEDIN", "Google", "adwords", "ads", "_", "q1", ".csv",
              "me", "ta"}

\* country values
MaxCountryParts == 3
CountryParts == {"u", "U", "s", "S", "a", "A", "k", "tr", "Turkey", "United", " ", "States",
                 "nan", "None"}

----------------------------------------------------------------------------
(* The pipeline of src/main.py as a state machine *)

\* loader.load_data(): main keeps the returned table as df
LoadData ==
    /\ loaded = None /\ caller = None
    /\ loaded' = load_data(files)
    /\ caller' = IF loaded'.k = "df" THEN loaded' ELSE None
    /\ UNCHANGED <<files, adf, view, probe>>

\* Construct with self.df = df in place of self.df = df.copy(): the derived
\* columns are written into the caller's table
Construct_NoCopy ==
    /\ adf = None /\ caller # None
    /\ loaded # None => ~IsEmpty(caller)
    /\ adf' = MarketingAnalyzer(caller)
    /\ caller' = IF adf'.k = "df" THEN adf' ELSE caller
    /\ UNCHANGED <<files, loaded, view, probe>>

\* MarketingAnalyzer(df); main returns before it when the loaded df is empty
Construct ==
    /\ adf = None /\ caller # None
    /\ loaded # None => ~IsEmpty(caller)
    /\ adf' = MarketingAnalyzer(caller)
    /\ UNCHANGED <<files, loaded, caller, view, probe>>

GetKpis ==
    /\ adf.k = "df"
    /\ view' = [name |-> "get_kpis", out |-> get_kpis(adf)]
    /\ UNCHANGED <<files, loaded, caller, adf, probe>>

AnalyzeTrends ==
    /\ adf.k = "df"
    /\ view' = [name |-> "analyze_trends", out |-> get_daily_trends(adf)]
    /\ UNCHANGED <<files, loaded, caller, adf, probe>>

AnalyzePlatformEfficiency ==
    /\ adf.k = "df"
    /\ view' = [name |-> "analyze_platform_efficiency", out |-> analyze_platform_efficiency(adf)]
    /\ UNCHANGED <<files, loaded, caller, adf, probe>>

AnalyzeGeo ==
    /\ adf.k = "df"
    /\ view' = [name |-> "analyze_geo", out |-> geo_performance(adf)]
    /\ UNCHANGED <<files, loaded, caller, adf, probe>>

AnalyzeBreakdown ==
    /\ adf.k = "df"
    /\ view' = [name |-> "analyze_breakdown", out |-> analyze_breakdown(adf)]
    /\ UNCHANGED <<files, loaded, caller, adf, probe>>

AnalyzeConversionProb ==
    /\ adf.k = "df"
    /\ view' = [name |-> "analyze_conversion_prob",
                out |-> analyze_conversion_prob(adf, DefaultMinClicks)]
    /\ UNCHANGED <<files, loaded, caller, adf, probe>>

AnalyzeAnomalies ==
    /\ adf.k = "df"
    /\ view' = [name |-> "analyze_anomalies", out |-> detect_cpc_anomalies(adf, DefaultWindow)]
    /\ UNCHANGED <<files, loaded, caller, adf, probe>>

AnalyzeForecast ==
    /\ adf.k = "df"
    /\ view' = [name |-> "analyze_forecast", out |-> analyze_forecast(adf)]
    /\ UNCHANGED <<files, loaded, caller, adf, probe>>

\* Either main's run over a folder of one file, or an Analyzer built by a
\* caller from a table of its own.
Init ==
    /\ \/ files \in Folders(1) /\ caller = None
       \/ files = <<>> /\ caller \in CallerTables
    /\ loaded = None /\ adf = None /\ view = None /\ probe = None

Next ==
    \/ LoadData
    \/ Construct
    \/ GetKpis
    \/ AnalyzeTrends
    \/ AnalyzePlatformEfficiency
    \/ AnalyzeGeo
    \/ AnalyzeBreakdown
    \/ AnalyzeConversionProb
    \/ AnalyzeAnomalies
    \/ AnalyzeForecast

Spec == Init /\ [][Next]_vars

\* DataLoader.load_data over every folder of the model
InitLoad ==
    /\ files \in Folders(Len(FileNames))
    /\ loaded = None /\ caller = None /\ adf = None /\ view = None /\ probe = None

NextLoad == LoadData

SpecLoad == InitLoad /\ [][NextLoad]_vars

----------------------------------------------------------------------------
(* Properties *)

\* the files load_data keeps: readable and not empty
KeptFiles(fs) == {i \in 1..Len(fs) : fs[i].ok /\ Len(fs[i].rows) > 0 /\ Len(fs[i].cols) > 0}

RECURSIVE RowsBefore(_, _)
\* the number of rows the kept files before the i-th contribute to the concatenation
RowsBefore(fs, i) ==
    IF i <= 1 THEN 0
    ELSE RowsBefore(fs, i - 1) + (IF (i - 1) \in KeptFiles(fs) THEN Len(fs[i - 1].rows) ELSE 0)

\* the ingested rows, as <<file, row>> positions
IngestedRows(fs) == UNION {{<<i, n>> : n \in 1..Len(fs[i].rows)} : i \in KeptFiles(fs)}

\* the ingested row a returned row (by its index label) comes from
SourceOf(fs, idx) ==
    CHOOSE s \in IngestedRows(fs) : RowsBefore(fs, s[1]) + s[2] - 1 = idx

\* whether a source column label names the canonical field, by the alias table
NamesField(label, field) ==
    \/ label = field
    \/ \E i \in 1..Len(COLUMN_MAPPING) :
          /\ COLUMN_MAPPING[i].canonical = field
          /\ StrLower(label) \in SeqRange(COLUMN_MAPPING[i].candidates)

\* the values an ingested row's own file gives for a canonical field
SourceValues(fs, s, field) ==
    {fs[s[1]].rows[s[2]][j] : j \in {j \in 1..Len(fs[s[1]].cols) : NamesField(fs[s[1]].cols[j], field)}}

DateParses(c) == ToDatetime(c).k = "day"

GroupedViews == {"analyze_trends", "analyze_platform_efficiency", "analyze_geo",
                 "analyze_breakdown", "analyze_conversion_prob"}

\* C1: in every grouped view, each row's CPC and CVR/CR are null when its
\* summed Clicks is zero, its CTR and CPM are null when its summed
\* Impressions is zero, and no ratio is ever infinite.
C1_GroupedRatiosNullOnZeroDenominator ==
    (view # None /\ view.name \in GroupedViews) =>
        /\ view.out.k = "df"
        /\ \A r \in 1..Len(view.out.rows) :
            LET out == view.out
                row == out.rows[r]
            IN  /\ \A c \in {"CPC", "CVR", "CR"} :
                      (HasCol(out, c) /\ Cell(out, row, "Clicks") = Num(0))
                          => Cell(out, row, c) = NaN
                /\ \A c \in {"CTR", "CPM"} :
                      (HasCol(out, c) /\ Cell(out, row, "Impressions") = Num(0))
                          => Cell(out, row, c) = NaN
                /\ \A c \in {"CPC", "CVR", "CR", "CTR", "CPM"} :
                      HasCol(out, c) => Cell(out, row, c).k \in {"nan", "num", "rat"}

\* a platform row with spend but neither clicks nor impressions, beside a row with clicks
C1_Witness ==
    /\ view # None /\ view.name = "analyze_platform_efficiency"
    /\ \E r \in 1..Len(view.out.rows) :
          /\ Cell(view.out, view.out.rows[r], "Clicks") = Num(0)
          /\ Cell(view.out, view.out.rows[r], "Impressions") = Num(0)
          /\ Cell(view.out, view.out.rows[r], "Spend") = Num(5)
          /\ Cell(view.out, view.out.rows[r], "CPC") = NaN
          /\ Cell(view.out, view.out.rows[r], "CPM") = NaN
    /\ \E r \in 1..Len(view.out.rows) : IsNumber(Cell(view.out, view.out.rows[r], "CPC"))

\* C2: get_kpis reports avg_cpc as null when total clicks is zero, and
\* avg_ctr and avg_cpm as null when total impressions is zero.
C2_KpisNullOnZeroDenominator ==
    (view # None /\ view.name = "get_kpis") =>
        /\ view.out.total_clicks = Num(0) => view.out.avg_cpc = NaN
        /\ view.out.total_impressions = Num(0) =>
              (view.out.avg_ctr = NaN /\ view.out.avg_cpm = NaN)

CanonicalNames == {"Date", "Spend", "Clicks", "Impressions", "Reach", "Conversions",
                   "Campaign", "AdName", "Platform", "Country", "Age", "Gender",
                   "Device", "Placement", "Sentiment"}

\* C3: the table load_data returns holds every canonical column exactly once,
\* whichever canonical columns the sources lack.
C3_SchemaComplete ==
    loaded.k = "df" =>
        \A c \in CanonicalNames : Cardinality({j \in 1..Len(loaded.cols) : loaded.cols[j] = c}) = 1

\* two sources, neither with a Platform column and one without any Date or Spend
C3_Witness ==
    /\ loaded.k = "df" /\ Len(files) = 2 /\ Len(loaded.rows) = 1
    /\ \A i \in 1..2 : files[i].ok /\ \A j \in 1..Len(files[i].cols) : ~NamesField(files[i].cols[j], "Platform")
    /\ files[2].cols = <<"date", "AMOUNT SPENT">>
    /\ Len(files[1].cols) = 0 \/ files[1].cols = <<"Amount Spent">>

\* C4: every source column whose label names a canonical field (by any
\* letter case of an alias, or the canonical label) ends up in that field:
\* each returned row's Spend is the numeric value of its own source's spend column.
C4_AliasCaseInsensitive ==
    loaded.k = "df" =>
        \A r \in 1..Len(loaded.rows) :
            \A v \in SourceValues(files, SourceOf(files, loaded.rows[r].idx), "Spend") :
                Cell(loaded, loaded.rows[r], "Spend") = FillNa(ToNumeric(v), Num(0))

\* C6: after normalisation every metric of every row is a number, and the
\* rows returned are as many as the ingested rows whose date parses.
C6_MetricsNumericNoRowLost ==
    loaded.k = "df" =>
        /\ \A r \in 1..Len(loaded.rows) : \A i \in 1..Len(METRIC_COLUMNS) :
              Cell(loaded, loaded.rows[r], METRIC_COLUMNS[i]).k = "num"
        /\ Len(loaded.rows) =
              Cardinality({s \in IngestedRows(files) :
                              \E v \in SourceValues(files, s, "Date") : DateParses(v)})

IsBlankText(c) == IsMissing(c) \/ StrStrip(AsStr(c)) = ""

\* C7: a row whose Platform is absent or blank gets the label inferred from
\* its source file's name.
C7_PlatformInferredWhenAbsent ==
    loaded.k = "df" =>
        \A r \in 1..Len(loaded.rows) :
            LET s == SourceOf(files, loaded.rows[r].idx)
            IN  (\A v \in SourceValues(files, s, "Platform") : IsBlankText(v)) =>
                    Cell(loaded, loaded.rows[r], "Platform")
                        = Str(infer_platform_from_filename(files[s[1]].name))

\* C8: a row whose source gives a non-blank Platform keeps it, trimmed.
C8_ExplicitPlatformKept ==
    loaded.k = "df" =>
        \A r \in 1..Len(loaded.rows) :
            \A v \in SourceValues(files, SourceOf(files, loaded.rows[r].idx), "Platform") :
                ~IsBlankText(v) => Cell(loaded, loaded.rows[r], "Platform") = Str(StrStrip(AsStr(v)))

\* the date-keyed frame of a view: the daily trend, the anomaly table, or
\* the forecast's daily history
DateKeyedFrame(v) ==
    IF v.name \in {"analyze_trends", "analyze_anomalies"} THEN v.out
    ELSE IF v.name = "analyze_forecast" THEN v.out.daily
    ELSE EmptyFrame

\* the Spend of the caller's rows whose date parses to day, on the given platform if any
SpendOfValidRows(day, platform) ==
    FSum(SelectAt(Column(caller, "Spend"),
        {r \in 1..Len(caller.rows) :
            /\ ToDatetime(Cell(caller, caller.rows[r], "Date")) = day
            /\ platform # None => Cell(caller, caller.rows[r], "Platform") = platform}))

\* C5: a row whose date cannot be parsed is in no table load_data returns,
\* and adds to no bucket of the daily trend, the anomaly table or the
\* forecast history: every bucket is keyed by a parsed date and sums only
\* the rows that parse to it.
C5_UnparseableDateNowhere ==
    /\ loaded.k = "df" =>
          \A r \in 1..Len(loaded.rows) :
              /\ Cell(loaded, loaded.rows[r], "Date").k = "day"
              /\ \A v \in SourceValues(files, SourceOf(files, loaded.rows[r].idx), "Date") :
                    DateParses(v)
    /\ (view # None /\ view.name \in {"analyze_trends", "analyze_anomalies", "analyze_forecast"}) =>
          LET f == DateKeyedFrame(view)
          IN  \A r \in 1..Len(f.rows) :
                  /\ Cell(f, f.rows[r], "Date").k = "day"
                  /\ Cell(f, f.rows[r], "Spend") =
                        SpendOfValidRows(Cell(f, f.rows[r], "Date"),
                                         IF HasCol(f, "Platform") THEN Cell(f, f.rows[r], "Platform")
                                         ELSE None)

\* a table of one parseable and one unparseable row, and a forecast history of one bucket
C5_Witness ==
    /\ view # None /\ view.name = "analyze_forecast"
    /\ Len(caller.rows) = 2
    /\ \E r \in 1..2 : ~DateParses(Cell(caller, caller.rows[r], "Date"))
    /\ Len(view.out.daily.rows) = 1
    /\ Cell(view.out.daily, view.out.daily.rows[1], "Spend") = Num(5)

----------------------------------------------------------------------------
(* _infer_platform_from_filename and _map_country on their own *)

InitInfer ==
    /\ probe \in {[fn |-> "infer_platform", input |-> t, out |-> None] :
                     t \in TextsOf(NameParts, MaxNameParts)}
    /\ files = <<>> /\ loaded = None /\ caller = None /\ adf = None /\ view = None

InferPlatform ==
    /\ probe.fn = "infer_platform" /\ probe.out = None
    /\ probe' = [probe EXCEPT !.out = Str(infer_platform_from_filename(probe.input))]
    /\ UNCHANGED <<files, loaded, caller, adf, view>>

NextInfer == InferPlatform

SpecInfer == InitInfer /\ [][NextInfer]_vars

InitCountry ==
    /\ probe \in {[fn |-> "map_country", input |-> t, once |-> None, twice |-> None] :
                     t \in TextsOf(CountryParts, MaxCountryParts)}
    /\ files = <<>> /\ loaded = None /\ caller = None /\ adf = None /\ view = None

MapCountry ==
    /\ probe.fn = "map_country" /\ probe.once = None
    /\ probe' = [probe EXCEPT !.once = Str(map_country(probe.input))]
    /\ UNCHANGED <<files, loaded, caller, adf, view>>

\* the normalisation applied to its own result
MapCountryAgain ==
    /\ probe.fn = "map_country" /\ probe.once # None /\ probe.twice = None
    /\ probe' = [probe EXCEPT !.twice = Str(map_country(probe.once.v))]
    /\ UNCHANGED <<files, loaded, caller, adf, view>>

NextCountry == MapCountry \/ MapCountryAgain

SpecCountry == InitCountry /\ [][NextCountry]_vars

HasKeyword(text, kw) == StrContains(StrLower(text), kw)

\* C9 as stated: Facebook for "facebook"/"meta", LinkedIn for "linkedin",
\* Google Ads for "google"/"adwords", Unknown for an identifier with none of
\* these five keywords.
C9_FiveKeywordTable ==
    (probe.fn = "infer_platform" /\ probe.out # None) =>
        LET t == probe.input
        IN  /\ (HasKeyword(t, "facebook") \/ HasKeyword(t, "meta")) => probe.out = Str("Facebook")
            /\ HasKeyword(t, "linkedin") => probe.out = Str("LinkedIn")
            /\ (HasKeyword(t, "google") \/ HasKeyword(t, "adwords")) => probe.out = Str("Google Ads")
            /\ ~(\E kw \in {"facebook", "meta", "linkedin", "google", "adwords"} : HasKeyword(t, kw))
                  => probe.out = Str("Unknown")

\* C9 (amended): case-insensitively, the first matching line of the table
\* decides: Facebook for "facebook"/"meta"; else LinkedIn for "linkedin";
\* else Google Ads for "google"/"adwords"/"ads_"; else Unknown.
C9_KeywordTableInOrder ==
    (probe.fn = "infer_platform" /\ probe.out # None) =>
        LET t == probe.input
            fb == HasKeyword(t, "facebook") \/ HasKeyword(t, "meta")
            li == HasKeyword(t, "linkedin")
            go == HasKeyword(t, "google") \/ HasKeyword(t, "adwords") \/ HasKeyword(t, "ads_")
        IN  /\ fb => probe.out = Str("Facebook")
            /\ (~fb /\ li) => probe.out = Str("LinkedIn")
            /\ (~fb /\ ~li /\ go) => probe.out = Str("Google Ads")
            /\ (~fb /\ ~li /\ ~go) => probe.out = Str("Unknown")

\* an identifier in capitals that holds both "linkedin" and "ads_" and is labelled LinkedIn
C9_Witness ==
    /\ probe.fn = "infer_platform" /\ probe.out = Str("LinkedIn")
    /\ StrContains(probe.input, "LINKEDIN") /\ StrContains(probe.input, "ads_")

AllUpperLetters(t) == \A i \in 1..Len(t) : CharAt(t, i) \in UpperSet

\* C10: a value equal, ignoring case, to a key of the country table becomes
\* that key's ISO-3 code; three upper-case letters stay as they are; any
\* other value stays as it is; the result is always a text; and normalising
\* the result again changes nothing.
C10_CountryNormalization ==
    (probe.fn = "map_country" /\ probe.once # None) =>
        LET t == probe.input
            keyed == {i \in 1..Len(COUNTRY_ISO_MAP) : StrLower(t) = StrLower(COUNTRY_ISO_MAP[i][1])}
        IN  /\ probe.once.k = "str"
            /\ \A i \in keyed : probe.once.v = COUNTRY_ISO_MAP[i][2]
            /\ (Len(t) = 3 /\ AllUpperLetters(t)) => probe.once.v = t
            /\ keyed = {} => probe.once.v = t
            /\ probe.twice # None => probe.twice = probe.once

\* a mixed-case country name replaced by its code, and the code kept by a second pass
C10_Witness ==
    /\ probe.fn = "map_country" /\ probe.input = "United States"
    /\ probe.once = Str("USA") /\ probe.twice = Str("USA")

----------------------------------------------------------------------------
(* Dimensional defaults and the ingestion failure policy *)

DimensionalFields ==
    {"Campaign", "AdName", "Platform", "Country", "Age", "Gender", "Device", "Placement"}

\* C11: a dimensional field that the row's source does not supply is, after
\* normalization, "Unknown" or null (for Platform, the label inferred from
\* the source's name is accepted as well), never any other text.
C11_AbsentDimensionUnknownOrNull ==
    loaded.k = "df" =>
        \A r \in 1..Len(loaded.rows) : \A field \in DimensionalFields :
            LET s == SourceOf(files, loaded.rows[r].idx)
                c == Cell(loaded, loaded.rows[r], field)
            IN  (\A v \in SourceValues(files, s, field) : IsMissing(v)) =>
                    \/ IsMissing(c)
                    \/ c = Str("Unknown")
                    \/ field = "Platform" /\ c = Str(infer_platform_from_filename(files[s[1]].name))

\* C12: a file that cannot be read, or is empty, is skipped: when some file
\* yields rows load_data returns a table, the same one it returns for the
\* folder without the skipped files, every row carrying the name of the
\* file it was read from; with no file at all, or no file yielding rows, it
\* returns an error and no table.
C12_IngestionFailurePolicy ==
    loaded # None =>
        LET kept == KeptFiles(files)
        IN  /\ Len(files) = 0 => loaded = [k |-> "error", type |-> "FileNotFoundError"]
            /\ (Len(files) > 0 /\ kept = {}) => loaded.k = "error"
            /\ kept # {} =>
                  /\ loaded.k = "df"
                  /\ loaded = load_data(SelectAt(files, kept))
                  /\ \A r \in 1..Len(loaded.rows) :
                        Cell(loaded, loaded.rows[r], "SourceFile")
                            = Str(files[SourceOf(files, loaded.rows[r].idx)[1]].name)
                  /\ \A q, r \in 1..Len(loaded.rows) :
                        loaded.rows[q].idx = loaded.rows[r].idx => q = r

\* a folder whose first file cannot be read and whose second file's row is returned
C12_Witness ==
    /\ loaded.k = "df" /\ Len(files) = 2
    /\ ~files[1].ok
    /\ Len(loaded.rows) = 1
    /\ Cell(loaded, loaded.rows[1], "SourceFile") = Str(files[2].name)

----------------------------------------------------------------------------
(* Analyzer purity *)

\* what a view returns for a stored table
ViewResult(name, df) ==
    CASE name = "get_kpis" -> get_kpis(df)
      [] name = "analyze_trends" -> get_daily_trends(df)
      [] name = "analyze_platform_efficiency" -> analyze_platform_efficiency(df)
      [] name = "analyze_geo" -> geo_performance(df)
      [] name = "analyze_breakdown" -> analyze_breakdown(df)
      [] name = "analyze_conversion_prob" -> analyze_conversion_prob(df, DefaultMinClicks)
      [] name = "analyze_anomalies" -> detect_cpc_anomalies(df, DefaultWindow)
      [] name = "analyze_forecast" -> analyze_forecast(df)

\* C13: no step changes the caller's table once it exists, no step changes
\* the Analyzer's stored table once it is constructed, and whatever a view
\* call returns is the one result fixed by the view and the stored table.
C13_AnalyzerPurity ==
    [][/\ caller # None => caller' = caller
       /\ adf # None => adf' = adf
       /\ view' # None => view'.out = ViewResult(view'.name, adf)]_vars

\* an audience view returned from a stored table that differs from the caller's table
C13_Witness ==
    /\ caller.k = "df" /\ adf.k = "df" /\ adf # caller
    /\ view # None /\ view.name = "analyze_conversion_prob"
    /\ view.out.k = "df" /\ Len(view.out.rows) > 0

----------------------------------------------------------------------------
(* The A/B test: ab_test_analysis and analyze_ab_stats *)

MinSampleSize == 30

\* x < y on floats (False when either is nan)
FLess(x, y) == FGreater(y, x)

\* groupby("Campaign")[["Clicks", "Conversions"]].sum()
campaign_totals(df) == GroupBySum(df, <<"Campaign">>, <<"Clicks", "Conversions">>)

\* .sort_values("Clicks", ascending=False).head(2): the positions, in the
\* totals, of the rows kept, in their order.  The sort is not a stable one,
\* so campaigns with equal clicks may come in either order.
HeadTwoOrders(totals) ==
    LET n == Len(totals.rows)
        clicks == Column(totals, "Clicks")
    IN  IF n = 0 THEN {<<>>}
        ELSE IF n = 1 THEN {<<1>>}
        ELSE {t \in {<<a, b>> : a \in 1..n, b \in 1..n} :
                 /\ t[1] # t[2]
                 /\ ~FLess(clicks[t[1]], clicks[t[2]])
                 /\ \A c \in (1..n) \ {t[1], t[2]} : ~FLess(clicks[t[2]], clicks[c])}

\* InsufficientSample with <= in place of <
InsufficientSample_AtThreshold(clicks1, clicks2) ==
    ~FGreater(clicks1, Num(MinSampleSize)) \/ ~FGreater(clicks2, Num(MinSampleSize))

\* clicks1 < 30 or clicks2 < 30
InsufficientSample(clicks1, clicks2) ==
    FLess(clicks1, Num(MinSampleSize)) \/ FLess(clicks2, Num(MinSampleSize))

\* ab_winner that takes the campaign with more clicks
ab_winner_FirstListed(c1, c2, p1, p2) == c1

\* c1 if p1 > p2 else c2
ab_winner(c1, c2, p1, p2) == IF FGreater(p1, p2) THEN c1 ELSE c2

\* np.sqrt(x) > 0 (False for the nan of a negative x, and for 0)
SqrtPositive(x) == FPositive(x)

\* z = (p1 - p2) / se if se > 0 else 0.0, se = sqrt(se_sq): 0 when its
\* numerator is 0, otherwise kept by its sign and its square
z_score(p1, p2, se_sq) ==
    IF ~SqrtPositive(se_sq) \/ p1 = p2 THEN Num(0)
    ELSE [k |-> "z", sign |-> IF FGreater(p1, p2) THEN 1 ELSE -1,
          sq |-> FDiv(FMul(FSub(p1, p2), FSub(p1, p2)), se_sq)]

\* 2 * (1 - _norm_cdf(abs(z))): 1 for z = 0 (erf(0) = 0); otherwise
\* 1 - erf(sqrt(z^2 / 2)), a value in 0..1 (1 excluded), kept by z^2
p_value_of(z) == IF z = Num(0) THEN Num(1) ELSE [k |-> "erfc", zsq |-> z.sq]

\* (1 - p_value) * 100
confidence_of(p_value) ==
    IF IsNumber(p_value) THEN FMul(FSub(Num(1), p_value), Num(100))
    ELSE [k |-> "erf_pct", zsq |-> p_value.zsq]

\* conv / clicks if clicks > 0 else 0.0
rate_of(conv, clicks) == IF FPositive(clicks) THEN FDiv(conv, clicks) ELSE Num(0)

\* p_pool * (1 - p_pool) * (1 / clicks1 + 1 / clicks2), the square of se
se_sq_of(p_pool, clicks1, clicks2) ==
    FMul(FMul(p_pool, FSub(Num(1), p_pool)),
         FAdd(FDiv(Num(1), clicks1), FDiv(Num(1), clicks2)))

\* the result of the test from the two rates and z
ab_result(c1, c2, clicks1, clicks2, p1, p2, z) ==
    IF InsufficientSample(clicks1, clicks2)
    THEN [status |-> "insufficient_sample_size"]
    ELSE [status |-> "ok", Campaign_A |-> c1, Campaign_B |-> c2,
          p1 |-> p1, p2 |-> p2, z |-> z, p_value |-> p_value_of(z),
          confidence |-> confidence_of(p_value_of(z)),
          winner |-> ab_winner(c1, c2, p1, p2)]

\* the test over the totals of the two campaigns compared
ab_compare(c1, c2, clicks1, conv1, clicks2, conv2) ==
    ab_result(c1, c2, clicks1, clicks2, rate_of(conv1, clicks1), rate_of(conv2, clicks2),
              z_score(rate_of(conv1, clicks1), rate_of(conv2, clicks2),
                      se_sq_of(FDiv(FAdd(conv1, conv2), FAdd(clicks1, clicks2)),
                               clicks1, clicks2)))

\* the test over the campaign totals, the head of their sort at positions top
ab_of_totals(totals, top) ==
    IF Len(top) < 2 THEN [status |-> "not_enough_campaigns"]
    ELSE ab_compare(Cell(totals, totals.rows[top[1]], "Campaign"),
                    Cell(totals, totals.rows[top[2]], "Campaign"),
                    Cell(totals, totals.rows[top[1]], "Clicks"),
                    Cell(totals, totals.rows[top[1]], "Conversions"),
                    Cell(totals, totals.rows[top[2]], "Clicks"),
                    Cell(totals, totals.rows[top[2]], "Conversions"))

\* ab_test_analysis(), the head of the sorted totals being at positions top
ab_test_analysis(df, top) ==
    IF ~HasCol(df, "Campaign") THEN [status |-> "no_campaign_data"]
    ELSE ab_of_totals(campaign_totals(df), top)

\* analyze_ab_stats(): (confidence, winner, details) from the test's result
analyze_ab_stats(res) ==
    IF res.status # "ok" THEN [confidence |-> Num(0), winner |-> None, details |-> <<>>]
    ELSE [confidence |-> res.confidence, winner |-> res.winner,
          details |-> [c1 |-> res.Campaign_A, c2 |-> res.Campaign_B, p1 |-> res.p1,
                       p2 |-> res.p2, p_value |-> res.p_value, z |-> res.z]]

\* tables for the A/B test: rows of (Campaign, Clicks, Conversions), or the
\* same rows without the Campaign column
MaxAbRows == 3

AbRows ==
    {<<Str(c), Num(m[1]), Num(m[2]), Num(5), Num(1000)>> :
        c \in {"A", "B", "C"}, m \in {<<15, 20>>, <<30, 0>>, <<100, 10>>, <<100, 20>>}}

AbTables ==
    {[k |-> "df", cols |-> <<"Campaign", "Clicks", "Conversions", "Spend", "Impressions">>,
      rows |-> [r \in 1..Len(q) |-> [idx |-> r - 1, cells |-> q[r]]]] :
        q \in UNION {[1..m -> AbRows] : m \in 1..MaxAbRows}}
    \cup {[k |-> "df", cols |-> <<"Clicks", "Conversions", "Spend", "Impressions">>,
           rows |-> << [idx |-> 0, cells |-> <<Num(100), Num(10), Num(5), Num(1000)>>] >>]}

InitAB ==
    /\ caller \in AbTables
    /\ files = <<>> /\ loaded = None /\ adf = None /\ view = None /\ probe = None

AnalyzeAbStats ==
    /\ adf.k = "df"
    /\ \E top \in (IF HasCol(adf, "Campaign") THEN HeadTwoOrders(campaign_totals(adf)) ELSE {<<>>}) :
          view' = [name |-> "analyze_ab_stats",
                   top |-> top,
                   test |-> ab_test_analysis(adf, top),
                   out |-> analyze_ab_stats(ab_test_analysis(adf, top))]
    /\ UNCHANGED <<files, loaded, caller, adf, probe>>

NextAB == Construct \/ AnalyzeAbStats

SpecAB == InitAB /\ [][NextAB]_vars

\* the campaigns of a stored table and their totals, summed row by row
CampaignsOf(df) ==
    {Cell(df, df.rows[r], "Campaign") : r \in 1..Len(df.rows)} \ {NaN, NA, None}

TotalOf(df, campaign, col) ==
    FSum(SelectAt(Column(df, col),
                  {r \in 1..Len(df.rows) : Cell(df, df.rows[r], "Campaign") = campaign}))

\* the two campaigns the test looked at
ComparedCampaigns ==
    [i \in 1..Len(view.top) |->
        Cell(campaign_totals(adf), campaign_totals(adf).rows[view.top[i]], "Campaign")]

NotOkStats == [confidence |-> Num(0), winner |-> None, details |-> <<>>]

\* C14: the test compares two campaigns such that no other campaign has more
\* total clicks than either; with fewer than two campaigns, or fewer than
\* 30 total clicks for either of the two, the status is not "ok" (it is
\* insufficient_sample_size in the second case) and analyze_ab_stats gives
\* (0.0, None, {}); with at least 30 clicks each, 30 included, it is "ok".
C14_AbShortCircuit ==
    (view # None /\ view.name = "analyze_ab_stats") =>
        LET cs == IF HasCol(adf, "Campaign") THEN CampaignsOf(adf) ELSE {}
            cmp == ComparedCampaigns
        IN  /\ view.test.status \in {"ok", "insufficient_sample_size", "not_enough_campaigns",
                                     "no_campaign_data"}
            /\ Cardinality(cs) < 2 => (view.test.status # "ok" /\ view.out = NotOkStats)
            /\ Cardinality(cs) >= 2 =>
                  LET k1 == TotalOf(adf, cmp[1], "Clicks")
                      k2 == TotalOf(adf, cmp[2], "Clicks")
                  IN  /\ Len(cmp) = 2 /\ cmp[1] # cmp[2] /\ {cmp[1], cmp[2]} \subseteq cs
                      /\ ~FLess(k1, k2)
                      /\ \A c \in cs \ {cmp[1], cmp[2]} : ~FGreater(TotalOf(adf, c, "Clicks"), k2)
                      /\ (FLess(k1, Num(30)) \/ FLess(k2, Num(30))) =>
                            /\ view.test.status = "insufficient_sample_size"
                            /\ view.out = NotOkStats
                      /\ (~FLess(k1, Num(30)) /\ ~FLess(k2, Num(30))) =>
                            /\ view.test.status = "ok"
                            /\ view.test.Campaign_A = cmp[1] /\ view.test.Campaign_B = cmp[2]

\* three campaigns, the second of the two compared having fewer than 30 clicks
C14_Witness ==
    /\ view # None /\ view.name = "analyze_ab_stats"
    /\ view.test.status = "insufficient_sample_size"
    /\ Cardinality(CampaignsOf(adf)) = 3
    /\ view.out = NotOkStats
    /\ TotalOf(adf, ComparedCampaigns[1], "Clicks") = Num(100)

\* conversions / clicks of a campaign, from the rows of the stored table
ObservedRate(df, campaign) ==
    FDiv(TotalOf(df, campaign, "Conversions"), TotalOf(df, campaign, "Clicks"))

\* a confidence value that lies in 0..100: a number in that range, or
\* 100 * erf(sqrt(z^2 / 2)) for a positive z^2
InZeroToHundred(c) ==
    \/ IsNumber(c) /\ ~FLess(c, Num(0)) /\ ~FGreater(c, Num(100))
    \/ c.k = "erf_pct" /\ FPositive(c.zsq)

\* the square of the standard error of the two compared campaigns
StandardErrorSq(df, a, b) ==
    LET pool == FDiv(FAdd(TotalOf(df, a, "Conversions"), TotalOf(df, b, "Conversions")),
                     FAdd(TotalOf(df, a, "Clicks"), TotalOf(df, b, "Clicks")))
    IN  FMul(FMul(pool, FSub(Num(1), pool)),
             FAdd(FDiv(Num(1), TotalOf(df, a, "Clicks")), FDiv(Num(1), TotalOf(df, b, "Clicks"))))

\* C15: when the test is performed the winner is one of the two compared
\* campaigns and neither has a higher conversions/clicks than the winner;
\* with 100 clicks each and 20 against 10 conversions the winner is the one
\* with 20; the confidence lies in 0..100, and with a standard error of 0
\* z is 0 and the confidence is 0.
C15_AbWinnerAndConfidence ==
    (view # None /\ view.name = "analyze_ab_stats" /\ view.test.status = "ok") =>
        LET a == view.test.Campaign_A
            b == view.test.Campaign_B
            w == view.out.winner
        IN  /\ w \in {a, b}
            /\ w = view.test.winner
            /\ \A c \in {a, b} : ~FGreater(ObservedRate(adf, c), ObservedRate(adf, w))
            /\ (/\ TotalOf(adf, a, "Clicks") = Num(100) /\ TotalOf(adf, b, "Clicks") = Num(100)
                /\ {TotalOf(adf, a, "Conversions"), TotalOf(adf, b, "Conversions")} = {Num(10), Num(20)})
                  => TotalOf(adf, w, "Conversions") = Num(20)
            /\ InZeroToHundred(view.out.confidence)
            /\ view.out.confidence = view.test.confidence
            /\ StandardErrorSq(adf, a, b) = Num(0) =>
                  (view.test.z = Num(0) /\ view.out.confidence = Num(0))

\* the winner is the campaign with fewer clicks and the higher rate
C15_Witness ==
    /\ view # None /\ view.name = "analyze_ab_stats" /\ view.test.status = "ok"
    /\ view.out.winner = view.test.Campaign_B
    /\ FGreater(TotalOf(adf, view.test.Campaign_A, "Clicks"),
                TotalOf(adf, view.test.Campaign_B, "Clicks"))
    /\ FGreater(view.test.p2, view.test.p1)
    /\ view.out.confidence.k = "erf_pct"

----------------------------------------------------------------------------
(* The forecast: analyze_forecast and forecast_spend *)

\* forecast_spend(days_forward): the frame of (Date, forecast), or the empty frame
forecast_spend(self_df, days_forward) ==
    LET trends == get_daily_trends(self_df)
    IN  IF IsEmpty(trends) THEN EmptyFrame
        ELSE LET g == GroupBySum(trends, <<"Date">>, <<"Spend">>)
                 df == AssignCol(g, "t", [r \in 1..Len(g.rows) |-> Num(r - 1)])
             IN  IF Len(df.rows) < MinForecastDays THEN EmptyFrame
                 ELSE LET coeffs == PolyFit1(Column(df, "t"), Column(df, "Spend"))
                          last_t == Len(df.rows) - 1
                          last_date == Cell(df, df.rows[Len(df.rows)], "Date")
                      IN  [k |-> "df", cols |-> <<"Date", "forecast">>,
                           rows |-> [i \in 1..days_forward |->
                               [idx |-> i - 1,
                                cells |-> <<Day(last_date.v + i),
                                            PolyVal1(coeffs, Num(last_t + i))>>]]]

\* tables for the forecast: over a calendar of MaxDays days starting on
\* 2024-01-29, each day has no row, one row spending 10, two rows spending
\* 10 each, or one row whose date is the text "soon"; the rows come in
\* calendar order or in the reverse order
MaxDays == 6

DayOptions == {"none", "ten", "twice", "undated"}

RowsOfDay(i, option) ==
    LET date == Day(19750 + i)
        row(d, amount) == <<d, Num(amount), Num(30), Num(100), Num(3)>>
    IN  CASE option = "none" -> <<>>
          [] option = "ten" -> <<row(date, 10)>>
          [] option = "twice" -> <<row(date, 10), row(date, 10)>>
          [] option = "undated" -> <<row(Str("soon"), 10)>>

RECURSIVE RowsOfCalendar(_, _)
RowsOfCalendar(choice, i) ==
    IF i = 0 THEN <<>> ELSE RowsOfCalendar(choice, i - 1) \o RowsOfDay(i, choice[i])

Reversed(q) == [i \in 1..Len(q) |-> q[Len(q) + 1 - i]]

ForecastTables ==
    {[k |-> "df", cols |-> <<"Date", "Spend", "Clicks", "Impressions", "Conversions">>,
      rows |-> [r \in 1..Len(IF rev THEN Reversed(RowsOfCalendar(choice, MaxDays))
                                     ELSE RowsOfCalendar(choice, MaxDays)) |->
                   [idx |-> r - 1,
                    cells |-> (IF rev THEN Reversed(RowsOfCalendar(choice, MaxDays))
                                      ELSE RowsOfCalendar(choice, MaxDays))[r]]]] :
        choice \in [1..MaxDays -> DayOptions], rev \in BOOLEAN}

InitForecast ==
    /\ caller \in ForecastTables
    /\ files = <<>> /\ loaded = None /\ adf = None /\ view = None /\ probe = None

ForecastSpend ==
    /\ adf.k = "df"
    /\ view' = [name |-> "forecast_spend", out |-> forecast_spend(adf, Horizon)]
    /\ UNCHANGED <<files, loaded, caller, adf, probe>>

NextForecast == Construct \/ AnalyzeForecast \/ ForecastSpend

SpecForecast == InitForecast /\ [][NextForecast]_vars

\* the distinct valid dates of the caller's table, as day numbers
ValidDays(df) ==
    {ToDatetime(Cell(df, df.rows[r], "Date")).v :
        r \in {r \in 1..Len(df.rows) : DateParses(Cell(df, df.rows[r], "Date"))}}

MaxOf(S) == CHOOSE x \in S : \A y \in S : y <= x

\* C16: with fewer than 5 distinct valid dates the forecast has no dates and
\* no values; with 5 or more it has exactly 15 dates, the 15 days following
\* the last observed date, and one number for each.
C16_ForecastShortCircuit ==
    (view # None /\ view.name \in {"analyze_forecast", "forecast_spend"}) =>
        LET days == ValidDays(caller)
            dates == IF view.name = "analyze_forecast" THEN view.out.f_dates
                     ELSE Column(view.out, "Date")
            vals == IF view.name = "analyze_forecast" THEN view.out.f_vals
                    ELSE Column(view.out, "forecast")
        IN  /\ Cardinality(days) < 5 => (dates = <<>> /\ vals = <<>>)
            /\ Cardinality(days) >= 5 =>
                  /\ Len(dates) = 15 /\ Len(vals) = 15
                  /\ \A i \in 1..15 : dates[i] = Day(MaxOf(days) + i) /\ IsNumber(vals[i])

\* five rows or more on four distinct valid dates: nothing is forecast
C16_Witness ==
    /\ view # None /\ view.name = "analyze_forecast"
    /\ Len(caller.rows) >= 5 /\ Cardinality(ValidDays(caller)) = 4
    /\ view.out.f_dates = <<>> /\ view.out.f_vals = <<>>
    /\ Len(view.out.daily.rows) = 4

\* the spend of a calendar day, summed over the rows of the caller's table
DailySpend(df, day) ==
    FSum(SelectAt(Column(df, "Spend"),
                  {r \in 1..Len(df.rows) : ToDatetime(Cell(df, df.rows[r], "Date")) = Day(day)}))

RECURSIVE CumulativeTo(_, _, _)
\* the spend of the valid days from first to day
CumulativeTo(df, first, day) ==
    IF day < first THEN Num(0) ELSE FAdd(CumulativeTo(df, first, day - 1), DailySpend(df, day))

\* C17: when the observed days are n >= 5 consecutive days and the cumulative
\* spend on them is a + b*i (i = 0..n-1), the k-th forecast value is
\* a + b*(n-1+k), for every k in 1..15.
C17_ForecastContinuesLine ==
    (view # None /\ view.name = "analyze_forecast") =>
        LET days == ValidDays(caller)
            n == Cardinality(days)
        IN  n >= 5 =>
              LET last == MaxOf(days)
                  first == last - (n - 1)
                  a == DailySpend(caller, first)
                  b == DailySpend(caller, first + 1)
              IN  (/\ days = first..last
                   /\ \A i \in 0..(n - 1) :
                         CumulativeTo(caller, first, first + i) = FAdd(a, FMul(b, Num(i))))
                  => \A j \in 1..15 :
                         view.out.f_vals[j] = FAdd(a, FMul(b, Num(n - 1 + j)))

\* five consecutive days, 20 spent on the first and 10 on each later one
C17_Witness ==
    /\ view # None /\ view.name = "analyze_forecast"
    /\ Cardinality(ValidDays(caller)) = 5
    /\ Len(view.out.f_vals) = 15
    /\ Column(view.out.daily, "Cum") = <<Num(20), Num(30), Num(40), Num(50), Num(60)>>
    /\ view.out.f_vals[1] = Num(70) /\ view.out.f_vals[15] = Num(210)

----------------------------------------------------------------------------
(* Keyword frequency: adname_keyword_analysis *)

DefaultTopN == 20

stopwords == {"v1", "v2", "copy", "final", "ads", "ad", "-", "_", "the", "a", "an"}

RECURSIVE ReplaceChar(_, _, _)
\* str.replace(old, new) for one-character texts
ReplaceChar(s, old, new) ==
    IF Len(s) = 0 THEN ""
    ELSE (IF CharAt(s, 1) = old THEN new ELSE CharAt(s, 1))
         \o ReplaceChar(SubSeq(s, 2, Len(s)), old, new)

RECURSIVE SplitOn(_, _, _)
\* the maximal runs of s without a character of seps, in order; cur is the
\* run being read
SplitOn(s, seps, cur) ==
    IF Len(s) = 0 THEN (IF cur = "" THEN <<>> ELSE <<cur>>)
    ELSE IF CharAt(s, 1) \in seps
         THEN (IF cur = "" THEN <<>> ELSE <<cur>>) \o SplitOn(SubSeq(s, 2, Len(s)), seps, "")
         ELSE SplitOn(SubSeq(s, 2, Len(s)), seps, cur \o CharAt(s, 1))

\* str.split(): on runs of whitespace
StrSplit(s) == SplitOn(s, {" "}, "")

\* the tokens of one AdName that are counted
name_tokens(adname) ==
    LET name == StrLower(AsStr(adname))
        tokens == StrSplit(ReplaceChar(ReplaceChar(name, "-", " "), "_", " "))
    IN  SelectAt(tokens, {i \in 1..Len(tokens) : tokens[i] \notin stopwords /\ Len(tokens[i]) > 2})

RECURSIVE AddTokens(_, _, _)
\* keywords[token] = keywords.get(token, 0) + clicks for each token; the
\* dict is a sequence of <<token, total>> in insertion order
AddTokens(keywords, tokens, clicks) ==
    IF Len(tokens) = 0 THEN keywords
    ELSE LET t == Head(tokens)
             at == {i \in 1..Len(keywords) : keywords[i][1] = t}
             next == IF at = {} THEN Append(keywords, <<t, FAdd(Num(0), clicks)>>)
                     ELSE [i \in 1..Len(keywords) |->
                              IF i \in at THEN <<t, FAdd(keywords[i][2], clicks)>>
                              ELSE keywords[i]]
         IN  AddTokens(next, Tail(tokens), clicks)

RECURSIVE KeywordTotals(_, _)
\* the keywords dict after the first n rows
KeywordTotals(df, n) ==
    IF n = 0 THEN <<>>
    ELSE AddTokens(KeywordTotals(df, n - 1),
                   name_tokens(Cell(df, df.rows[n], "AdName")),
                   Cell(df, df.rows[n], "Clicks"))

RECURSIVE SortedByTotalDesc(_)
\* sorted(items, key=total, reverse=True): stable, equal totals keep their order
SortedByTotalDesc(items) ==
    IF Len(items) = 0 THEN <<>>
    ELSE LET m == CHOOSE i \in 1..Len(items) :
                      /\ \A j \in 1..Len(items) : ~FGreater(items[j][2], items[i][2])
                      /\ \A j \in 1..(i - 1) : FGreater(items[i][2], items[j][2])
         IN  <<items[m]>> \o SortedByTotalDesc(SelectAt(items, (1..Len(items)) \ {m}))

adname_keyword_analysis(self_df, top_n) ==
    IF ~HasCol(self_df, "AdName") THEN EmptyFrame
    ELSE LET keywords == KeywordTotals(self_df, Len(self_df.rows))
             sorted == SortedByTotalDesc(keywords)
             kept == SubSeq(sorted, 1, IF Len(sorted) < top_n THEN Len(sorted) ELSE top_n)
         IN  IF Len(keywords) = 0 THEN EmptyFrame
             ELSE [k |-> "df", cols |-> <<"Keyword", "Total_Clicks">>,
                   rows |-> [i \in 1..Len(kept) |->
                                [idx |-> i - 1, cells |-> <<Str(kept[i][1]), kept[i][2]>>]]]

\* tables for the keyword scan: rows of (AdName, Clicks), or a table without AdName
MaxNlpRows == 3

AdNames == {"Summer_Sale_v1", "summer-sale-final", "Summer.Sale", "Big Sale ad", "the_Promo copy"}

NlpRows ==
    {<<Str(a), Num(c), Num(5), Num(100), Num(3)>> : a \in AdNames, c \in {5, 10}}

NlpTables ==
    {[k |-> "df", cols |-> <<"AdName", "Clicks", "Spend", "Impressions", "Conversions">>,
      rows |-> [r \in 1..Len(q) |-> [idx |-> r - 1, cells |-> q[r]]]] :
        q \in UNION {[1..m -> NlpRows] : m \in 1..MaxNlpRows}}
    \cup {[k |-> "df", cols |-> <<"Clicks", "Spend", "Impressions", "Conversions">>,
           rows |-> << [idx |-> 0, cells |-> <<Num(10), Num(5), Num(100), Num(3)>>] >>]}

InitNlp ==
    /\ caller \in NlpTables
    /\ files = <<>> /\ loaded = None /\ adf = None /\ view = None /\ probe = None

\* analyze_nlp(), or adname_keyword_analysis(top_n) with a smaller top_n
AnalyzeNlp ==
    /\ adf.k = "df"
    /\ \E top_n \in {1, 2, DefaultTopN} :
          view' = [name |-> "analyze_nlp", top_n |-> top_n,
                   out |-> adname_keyword_analysis(adf, top_n)]
    /\ UNCHANGED <<files, loaded, caller, adf, probe>>

NextNlp == Construct \/ AnalyzeNlp

SpecNlp == InitNlp /\ [][NextNlp]_vars

\* an AdName lower-cased and split on every character that is not a letter
\* or a digit, without the tokens shorter than 3 characters or in the
\* stop-word set
AlnumTokens(adname) ==
    LET name == StrLower(adname)
        seps == {CharAt(name, i) : i \in 1..Len(name)} \ (LowerSet \cup DigitSet)
        tokens == SplitOn(name, seps, "")
    IN  SelectAt(tokens, {i \in 1..Len(tokens) : Len(tokens[i]) >= 3 /\ tokens[i] \notin stopwords})

\* the sum of Clicks over all occurrences of a token in the caller's table
ClicksOfToken(df, token) ==
    FSum([r \in 1..Len(df.rows) |->
            FMul(Cell(df, df.rows[r], "Clicks"),
                 Num(Cardinality({i \in 1..Len(AlnumTokens(Cell(df, df.rows[r], "AdName").v)) :
                                     AlnumTokens(Cell(df, df.rows[r], "AdName").v)[i] = token})))])

AllTokens(df) ==
    UNION {{AlnumTokens(Cell(df, df.rows[r], "AdName").v)[i] :
               i \in 1..Len(AlnumTokens(Cell(df, df.rows[r], "AdName").v))} : r \in 1..Len(df.rows)}

\* C18: the reported keywords are tokens of the lower-cased AdNames split on
\* every non-alphanumeric character, at least 3 characters long and not
\* stop-words; each total is the sum of Clicks over the token's occurrences;
\* at most top_n are reported, in descending order of total, and no
\* unreported token has a larger total than a reported one.
C18_KeywordFrequency ==
    (view # None /\ view.name = "analyze_nlp" /\ HasCol(caller, "AdName")) =>
        LET kw == Column(view.out, "Keyword")
            tot == Column(view.out, "Total_Clicks")
            all == AllTokens(caller)
            reported == {kw[i].v : i \in 1..Len(kw)}
        IN  /\ Len(kw) <= view.top_n
            /\ Len(kw) = Cardinality(reported)
            /\ \A i \in 1..Len(kw) : kw[i].v \in all /\ tot[i] = ClicksOfToken(caller, kw[i].v)
            /\ \A i \in 1..(Len(kw) - 1) : ~FGreater(tot[i + 1], tot[i])
            /\ Len(kw) < view.top_n => reported = all
            /\ \A t \in all \ reported :
                  \A i \in 1..Len(kw) : ~FGreater(ClicksOfToken(caller, t), tot[i])

----------------------------------------------------------------------------
(* Anomaly detection: detect_cpc_anomalies with a window of the caller's choice *)

\* tables for the anomaly view: over a calendar of MaxAnomalyDays days, each
\* day has no row, a row with CPC 1 (spend 10 on 10 clicks), a row with
\* CPC 10 (spend 100 on 10 clicks), or a row without clicks (CPC null)
MaxAnomalyDays == 6

CpcOptions == {"none", "low", "high", "noclicks"}

CpcRowsOfDay(i, option) ==
    CASE option = "none" -> <<>>
      [] option = "low" -> << <<Day(19750 + i), Num(10), Num(10), Num(100), Num(1)>> >>
      [] option = "high" -> << <<Day(19750 + i), Num(100), Num(10), Num(100), Num(1)>> >>
      [] option = "noclicks" -> << <<Day(19750 + i), Num(10), Num(0), Num(100), Num(0)>> >>

RECURSIVE CpcRowsOfCalendar(_, _)
CpcRowsOfCalendar(choice, i) ==
    IF i = 0 THEN <<>> ELSE CpcRowsOfCalendar(choice, i - 1) \o CpcRowsOfDay(i, choice[i])

AnomalyTables ==
    {[k |-> "df", cols |-> <<"Date", "Spend", "Clicks", "Impressions", "Conversions">>,
      rows |-> [r \in 1..Len(CpcRowsOfCalendar(choice, MaxAnomalyDays)) |->
                   [idx |-> r - 1, cells |-> CpcRowsOfCalendar(choice, MaxAnomalyDays)[r]]]] :
        choice \in [1..MaxAnomalyDays -> CpcOptions]}

\* the windows the view is called with: short ones, one of the length of the
\* calendar, and the default
AnomalyWindows == {2, 3, MaxAnomalyDays, DefaultWindow}

InitAnomaly ==
    /\ caller \in AnomalyTables
    /\ files = <<>> /\ loaded = None /\ adf = None /\ view = None /\ probe = None

DetectCpcAnomalies ==
    /\ adf.k = "df"
    /\ \E window \in AnomalyWindows :
          view' = [name |-> "detect_cpc_anomalies", window |-> window,
                   out |-> detect_cpc_anomalies(adf, window)]
    /\ UNCHANGED <<files, loaded, caller, adf, probe>>

NextAnomaly == Construct \/ DetectCpcAnomalies

SpecAnomaly == InitAnomaly /\ [][NextAnomaly]_vars

IsFlagged(out, r) == Cell(out, out.rows[r], "Is_Anomaly").v

BoundsDefined(out, r) ==
    /\ Cell(out, out.rows[r], "Upper") # NaN
    /\ Cell(out, out.rows[r], "Lower") # NaN

WindowMean(out, r, window) ==
    FDiv(FSum([i \in 1..window |-> Cell(out, out.rows[r - window + i], "CPC")]), Num(window))

WindowVariance(out, r, window) ==
    FDiv(FSum([i \in 1..window |->
                 FMul(FSub(Cell(out, out.rows[r - window + i], "CPC"), WindowMean(out, r, window)),
                      FSub(Cell(out, out.rows[r - window + i], "CPC"), WindowMean(out, r, window)))]),
         Num(window - 1))

----------------------------------------------------------------------------
(* The device/placement breakdown on tables with missing dimensions *)

\* tables for the breakdown: rows of (Platform, Device, Placement, Spend),
\* each dimension a text or null, with or without the Device and the
\* Placement column
MaxBreakdownRows == 2

BreakdownRows ==
    {[Platform |-> p, Device |-> d, Placement |-> pl, Spend |-> Num(sp)] :
        p \in {Str("Facebook"), NaN}, d \in {Str("mobile"), NaN},
        pl \in {Str("feed"), NaN}, sp \in {5, 7}}

BreakdownCols(hasDevice, hasPlacement) ==
    <<"Platform">> \o (IF hasDevice THEN <<"Device">> ELSE <<>>)
                   \o (IF hasPlacement THEN <<"Placement">> ELSE <<>>)

BreakdownTables ==
    {[k |-> "df",
      cols |-> BreakdownCols(hd, hp) \o <<"Spend", "Clicks", "Impressions", "Conversions">>,
      rows |-> [r \in 1..Len(q) |->
                   [idx |-> r - 1,
                    cells |-> [i \in 1..Len(BreakdownCols(hd, hp)) |-> q[r][BreakdownCols(hd, hp)[i]]]
                              \o <<q[r].Spend, Num(30), Num(100), Num(3)>>]]] :
        q \in UNION {[1..m -> BreakdownRows] : m \in 1..MaxBreakdownRows},
        hd \in BOOLEAN, hp \in BOOLEAN}

InitBreakdown ==
    /\ caller \in BreakdownTables
    /\ files = <<>> /\ loaded = None /\ adf = None /\ view = None /\ probe = None

NextBreakdown == Construct \/ AnalyzeBreakdown

SpecBreakdown == InitBreakdown /\ [][NextBreakdown]_vars

\* a row's value of a dimension, "Unknown" when the column is absent or the value null
DimensionOrUnknown(df, row, name) ==
    IF ~HasCol(df, name) \/ IsMissing(Cell(df, row, name)) THEN Str("Unknown")
    ELSE Cell(df, row, name)

\* C20: every row with a Platform is counted in exactly one bucket, that of
\* its Platform, Device and Placement, a missing Device or Placement (column
\* absent or value null) counting as "Unknown"; so the Spend of all buckets
\* together is the Spend of all rows that have a Platform.
C20_BreakdownCountsEveryPlatformRow ==
    (view # None /\ view.name = "analyze_breakdown") =>
        LET out == view.out
            with == {r \in 1..Len(caller.rows) : ~IsMissing(Cell(caller, caller.rows[r], "Platform"))}
            bucket(r) == <<Cell(caller, caller.rows[r], "Platform"),
                           DimensionOrUnknown(caller, caller.rows[r], "Device"),
                           DimensionOrUnknown(caller, caller.rows[r], "Placement")>>
        IN  /\ \A r \in with :
                  Cardinality({b \in 1..Len(out.rows) :
                                  KeyOf(out, out.rows[b], <<"Platform", "Device", "Placement">>)
                                      = bucket(r)}) = 1
            /\ FSum(Column(out, "Spend")) = FSum(SelectAt(Column(caller, "Spend"), with))

----------------------------------------------------------------------------
(* Attribution: attribution_summary and analyze_attribution *)

\* np.maximum(x, 0)
MaxWithZero(x) == IF FGreater(Num(0), x) THEN Num(0) ELSE x

attribution_summary(self_df) ==
    IF ~HasCol(self_df, "Campaign") \/ ~HasCol(self_df, "Platform") THEN EmptyFrame
    ELSE LET df == GroupBySum(self_df, <<"Platform", "Campaign">>, <<"Clicks", "Conversions">>)
         IN  AssignCol(df, "NonConversions",
                 [r \in 1..Len(df.rows) |->
                     MaxWithZero(FSub(Cell(df, df.rows[r], "Clicks"),
                                      Cell(df, df.rows[r], "Conversions")))])

\* add_node that appends the name whether or not it is known
add_node_Always(nodes, name) == Append(nodes, name)

\* add_node(name): the node list afterwards
add_node(nodes, name) ==
    IF \E i \in 1..Len(nodes) : nodes[i] = name THEN nodes ELSE Append(nodes, name)

\* node_index[name], counted from 0
node_index(nodes, name) == (CHOOSE i \in 1..Len(nodes) : nodes[i] = name) - 1

\* sources/targets/values with one more edge when the weight is > 0
WithEdge(g, src, tgt, weight) ==
    IF FPositive(weight)
    THEN [g EXCEPT !.sources = Append(@, src), !.targets = Append(@, tgt),
                   !.values = Append(@, weight)]
    ELSE g

RECURSIVE AttributionAfter(_, _)
\* nodes, sources, targets and values after the first n rows of the summary
AttributionAfter(df, n) ==
    IF n = 0
    THEN [nodes |-> add_node(add_node(<<>>, "Converted"), "Lost"),
          sources |-> <<>>, targets |-> <<>>, values |-> <<>>]
    ELSE LET g == AttributionAfter(df, n - 1)
             row == df.rows[n]
             plat == AsStr(Cell(df, row, "Platform"))
             camp == AsStr(Cell(df, row, "Campaign"))
             nodes == add_node(add_node(g.nodes, plat), camp)
             p_idx == node_index(nodes, plat)
             c_idx == node_index(nodes, camp)
             g0 == [g EXCEPT !.nodes = nodes]
             g1 == WithEdge(g0, p_idx, c_idx, Cell(df, row, "Clicks"))
             g2 == WithEdge(g1, c_idx, node_index(nodes, "Converted"), Cell(df, row, "Conversions"))
         IN  WithEdge(g2, c_idx, node_index(nodes, "Lost"), Cell(df, row, "NonConversions"))

analyze_attribution(self_df) ==
    LET df == attribution_summary(self_df)
    IN  IF IsEmpty(df) THEN [nodes |-> <<>>, sources |-> <<>>, targets |-> <<>>, values |-> <<>>]
        ELSE AttributionAfter(df, Len(df.rows))

\* tables for the attribution: rows of (Platform, Campaign, Clicks,
\* Conversions), among them conversions above clicks, no clicks, negative
\* clicks, and campaigns named like a platform or like an outcome; or a
\* table without the Campaign column
MaxAttributionRows == 2

AttributionRows ==
    {<<Str(p), Str(c), Num(m[1]), Num(m[2]), Num(5), Num(100)>> :
        p \in {"Facebook", "Google"}, c \in {"Spring", "Facebook", "Lost"},
        m \in {<<10, 3>>, <<10, 20>>, <<0, 0>>, <<-5, 2>>}}

AttributionTables ==
    {[k |-> "df",
      cols |-> <<"Platform", "Campaign", "Clicks", "Conversions", "Spend", "Impressions">>,
      rows |-> [r \in 1..Len(q) |-> [idx |-> r - 1, cells |-> q[r]]]] :
        q \in UNION {[1..m -> AttributionRows] : m \in 1..MaxAttributionRows}}
    \cup {[k |-> "df", cols |-> <<"Platform", "Clicks", "Conversions", "Spend", "Impressions">>,
           rows |-> << [idx |-> 0,
                        cells |-> <<Str("Facebook"), Num(10), Num(3), Num(5), Num(100)>>] >>]}

InitAttribution ==
    /\ caller \in AttributionTables
    /\ files = <<>> /\ loaded = None /\ adf = None /\ view = None /\ probe = None

AnalyzeAttribution ==
    /\ adf.k = "df"
    /\ view' = [name |-> "analyze_attribution", out |-> analyze_attribution(adf)]
    /\ UNCHANGED <<files, loaded, caller, adf, probe>>

NextAttribution == Construct \/ AnalyzeAttribution

SpecAttribution == InitAttribution /\ [][NextAttribution]_vars

\* C21: every edge weight of analyze_attribution is a number above 0; the
\* sources, targets and weights have one length; every source and target
\* is an index into the node list; and no name occurs twice among the nodes.
C21_AttributionWellFormed ==
    (view # None /\ view.name = "analyze_attribution") =>
        LET g == view.out
        IN  /\ Len(g.sources) = Len(g.values) /\ Len(g.targets) = Len(g.values)
            /\ \A e \in 1..Len(g.values) :
                  /\ IsNumber(g.values[e]) /\ NumerOf(g.values[e]) > 0
                  /\ g.sources[e] \in 0..(Len(g.nodes) - 1)
                  /\ g.targets[e] \in 0..(Len(g.nodes) - 1)
            /\ \A i, j \in 1..Len(g.nodes) : g.nodes[i] = g.nodes[j] => i = j

\* a campaign under two platforms, with conversions above clicks in one row
\* and negative clicks in the other
C21_Witness ==
    /\ view # None /\ view.name = "analyze_attribution"
    /\ Len(caller.rows) = 2
    /\ Cell(caller, caller.rows[1], "Campaign") = Cell(caller, caller.rows[2], "Campaign")
    /\ Cell(caller, caller.rows[1], "Platform") # Cell(caller, caller.rows[2], "Platform")
    /\ Cell(caller, caller.rows[1], "Conversions") = Num(20)
    /\ Cell(caller, caller.rows[2], "Clicks") = Num(-5)
    /\ Len(view.out.nodes) = 5 /\ Len(view.out.values) = 3

----------------------------------------------------------------------------
(* The pipeline: main *)

\* the methods class MarketingAnalyzer defines
AnalyzerMethods ==
    {"get_summary_kpis", "get_kpis", "get_daily_trends", "analyze_trends",
     "analyze_platform_efficiency", "analyze_cohort", "detect_cpc_anomalies",
     "analyze_anomalies", "ab_test_analysis", "analyze_ab_stats", "forecast_spend",
     "analyze_forecast", "geo_performance", "analyze_geo", "attribution_summary",
     "analyze_attribution", "funnel_summary", "analyze_conversion_prob",
     "device_placement_summary", "analyze_breakdown", "audience_summary",
     "adname_keyword_analysis", "analyze_nlp"}

\* the methods class DashboardCharts defines
ChartMethods ==
    {"create_trends_chart", "create_platform_bar_charts", "create_funnel",
     "create_cohort_heatmap", "create_sankey", "create_sentiment_gauge",
     "create_audience_scatter", "create_forecast_chart", "create_sunburst",
     "create_anomaly_chart", "create_map", "create_nlp_chart", "create_ab_gauge"}

\* the methods class HTMLReportBuilder defines
BuilderMethods == {"generate"}

OnAnalyzer(m) == [on |-> "analyzer", call |-> m]
OnViz(m) == [on |-> "viz", call |-> m]

\* the calls of main after MarketingAnalyzer(df), in program order
MainStatements ==
    << OnAnalyzer("get_kpis"), OnAnalyzer("analyze_trends"),
       OnAnalyzer("analyze_platform_efficiency"), OnAnalyzer("analyze_cohort"),
       OnAnalyzer("analyze_attribution"), OnAnalyzer("analyze_conversion_prob"),
       OnAnalyzer("analyze_forecast"), OnAnalyzer("analyze_anomalies"),
       OnAnalyzer("analyze_breakdown"), OnAnalyzer("analyze_geo"),
       OnAnalyzer("analyze_nlp"), OnAnalyzer("analyze_ab_stats"),
       OnAnalyzer("analyze_frequency"),
       OnViz("create_trends_chart"), OnViz("create_platform_bar_charts"),
       OnViz("create_funnel"), OnViz("create_cohort_heatmap"), OnViz("create_sankey"),
       OnViz("create_sentiment_gauge"), OnViz("create_audience_scatter"),
       OnViz("create_forecast_chart"), OnViz("create_sunburst"),
       OnViz("create_anomaly_chart"), OnViz("create_map"), OnViz("create_nlp_chart"),
       OnViz("create_ab_gauge"),
       OnAnalyzer("analyze_creative_fatigue"),
       OnViz("create_creative_fatigue_chart"), OnViz("create_frequency_chart"),
       [on |-> "builder", call |-> "generate"] >>

\* the attribute lookup obj.method succeeds
Resolves(st) ==
    CASE st.on = "analyzer" -> st.call \in AnalyzerMethods
      [] st.on = "viz" -> st.call \in ChartMethods
      [] st.on = "builder" -> st.call \in BuilderMethods

\* what a view called by main can return
MainResults(name, df) ==
    CASE name = "analyze_cohort" -> {<< <<>>, <<>> >>}
      [] name = "analyze_attribution" -> {analyze_attribution(df)}
      [] name = "analyze_nlp" -> {adname_keyword_analysis(df, DefaultTopN)}
      [] name = "analyze_ab_stats" ->
            IF HasCol(df, "Campaign")
            THEN {analyze_ab_stats(res) :
                    res \in UNION {{ab_test_analysis(df, top) : top \in HeadTwoOrders(totals)} :
                                      totals \in {campaign_totals(df)}}}
            ELSE {analyze_ab_stats(res) : res \in {ab_test_analysis(df, <<>>)}}
      [] OTHER -> {ViewResult(name, df)}

\* a run of main over a folder; probe holds the position of the run
InitMain ==
    /\ files \in Folders(1)
    /\ loaded = None /\ caller = None /\ adf = None /\ view = None
    /\ probe = [pc |-> "load", at |-> 0, charts |-> {}, error |-> "none"]

\* loader.load_data(), whose exceptions main does not catch, then the
\* return on no data
MainLoad ==
    /\ probe.pc = "load"
    /\ loaded' = load_data(files)
    /\ probe' = IF loaded'.k = "error"
                THEN [probe EXCEPT !.pc = "fatal", !.error = loaded'.type]
                ELSE [probe EXCEPT !.pc = IF loaded' = None \/ IsEmpty(loaded')
                                          THEN "returned" ELSE "construct"]
    /\ UNCHANGED <<files, caller, adf, view>>

\* analyzer = MarketingAnalyzer(df)
MainConstruct ==
    /\ probe.pc = "construct"
    /\ adf' = MarketingAnalyzer(loaded)
    /\ probe' = [probe EXCEPT !.pc = "run", !.at = 1]
    /\ UNCHANGED <<files, loaded, caller, view>>

\* the run's position after the call at p.at: the next statement, the
\* report once generate has returned, or the end of the run on an
\* AttributeError, which main does not catch
NextPosition(p) ==
    LET st == MainStatements[p.at]
        last == p.at = Len(MainStatements)
    IN  IF Resolves(st)
        THEN [p EXCEPT !.pc = IF last THEN "report" ELSE "run",
                       !.at = IF last THEN @ ELSE @ + 1,
                       !.charts = IF st.on = "viz" THEN @ \cup {st.call} ELSE @]
        ELSE [p EXCEPT !.pc = "fatal", !.error = "AttributeError"]

\* the call at the run's position, its method defined
MainStep ==
    /\ probe.pc = "run" /\ Resolves(MainStatements[probe.at])
    /\ IF MainStatements[probe.at].on = "analyzer"
       THEN \E out \in MainResults(MainStatements[probe.at].call, adf) :
               view' = [name |-> MainStatements[probe.at].call, out |-> out]
       ELSE view' = view
    /\ probe' = NextPosition(probe)
    /\ UNCHANGED <<files, loaded, caller, adf>>

\* the call at the run's position, its method not defined
MainAttributeError ==
    /\ probe.pc = "run" /\ ~Resolves(MainStatements[probe.at])
    /\ probe' = NextPosition(probe)
    /\ UNCHANGED <<files, loaded, caller, adf, view>>

NextMain == MainLoad \/ MainConstruct \/ MainStep \/ MainAttributeError

SpecMain == InitMain /\ [][NextMain]_vars

\* what every step from a statement of main does to the run's position
MainAdvance == probe.pc = "run" /\ probe' = NextPosition(probe)

\* the interpreter goes on from every statement of main that follows the
\* construction of the Analyzer, until main returns or raises
FairMain == SpecMain /\ WF_probe(MainAdvance)

\* C22: a run whose loaded table is not empty never ends in a fatal error,
\* and once its Analyzer is constructed it eventually reaches report
\* generation.
C22_PipelineReachesReport ==
    /\ []((loaded.k = "df" /\ ~IsEmpty(loaded)) => probe.pc # "fatal")
    /\ (probe.pc = "run") ~> (probe.pc = "report")

----------------------------------------------------------------------------
(* The day index of the forecast *)

\* the calendar days from the first date of daily to each of its dates
CalendarOffsets(daily) ==
    [r \in 1..Len(daily.rows) |->
        Num(Cell(daily, daily.rows[r], "Date").v - Cell(daily, daily.rows[1], "Date").v)]

\* C23: the index t of each observed date is the number of calendar days
\* from the first observed date to it, and the k-th forecast value is the
\* line fitted to the cumulative spend over those indices, taken k days past
\* the last observed date.
C23_DayIndexIsCalendarOffset ==
    (view # None /\ view.name = "analyze_forecast" /\ ~IsEmpty(view.out.daily)) =>
        LET daily == view.out.daily
            offsets == CalendarOffsets(daily)
        IN  /\ Column(daily, "t") = offsets
            /\ Len(daily.rows) >= MinForecastDays =>
                  \A j \in 1..Horizon :
                     view.out.f_vals[j] =
                        PolyVal1(PolyFit1(offsets, Column(daily, "Cum")),
                                 Num(offsets[Len(offsets)].v + j))

----------------------------------------------------------------------------
(* The anomaly view over several platforms *)

\* tables with a Platform column: over a calendar of MaxPlatformDays days
\* starting on 2024-01-29, each day has no row, a row of one platform, or
\* a row of each of two platforms
MaxPlatformDays == 3

PlatformOptions == {"none", "facebook", "google", "both"}

PlatformRowsOfDay(i, option) ==
    LET fb == <<Day(19750 + i), Str("Facebook"), Num(10), Num(10), Num(100), Num(1)>>
        gg == <<Day(19750 + i), Str("Google"), Num(100), Num(10), Num(100), Num(1)>>
    IN  CASE option = "none" -> <<>>
          [] option = "facebook" -> <<fb>>
          [] option = "google" -> <<gg>>
          [] option = "both" -> <<gg, fb>>

RECURSIVE PlatformRowsOfCalendar(_, _)
PlatformRowsOfCalendar(choice, i) ==
    IF i = 0 THEN <<>>
    ELSE PlatformRowsOfCalendar(choice, i - 1) \o PlatformRowsOfDay(i, choice[i])

PlatformTables ==
    {[k |-> "df", cols |-> <<"Date", "Platform", "Spend", "Clicks", "Impressions", "Conversions">>,
      rows |-> [r \in 1..Len(PlatformRowsOfCalendar(choice, MaxPlatformDays)) |->
                   [idx |-> r - 1, cells |-> PlatformRowsOfCalendar(choice, MaxPlatformDays)[r]]]] :
        choice \in [1..MaxPlatformDays -> PlatformOptions]}

InitAnomalyPlatforms ==
    /\ caller \in PlatformTables
    /\ files = <<>> /\ loaded = None /\ adf = None /\ view = None /\ probe = None

NextAnomalyPlatforms == Construct \/ DetectCpcAnomalies \/ AnalyzeAnomalies

SpecAnomalyPlatforms == InitAnomalyPlatforms /\ [][NextAnomalyPlatforms]_vars

\* C24: the anomaly view has exactly one row for each distinct valid date of
\* the table, its rows in strictly ascending date order, so that the rows
\* of a trailing window are date buckets.
C24_AnomalyViewKeyedByDate ==
    (view # None /\ view.name \in {"detect_cpc_anomalies", "analyze_anomalies"}) =>
        /\ Len(view.out.rows) = Cardinality(ValidDays(caller))
        /\ \A r \in 1..(Len(view.out.rows) - 1) :
              Cell(view.out, view.out.rows[r], "Date").v
                 < Cell(view.out, view.out.rows[r + 1], "Date").v

----------------------------------------------------------------------------
(* Audience segments: analyze_conversion_prob and audience_summary *)

audience_summary(self_df) ==
    IF ~HasCol(self_df, "Age") \/ ~HasCol(self_df, "Gender") THEN EmptyFrame
    ELSE LET df == GroupBySum(self_df, <<"Age", "Gender">>, <<"Spend", "Clicks", "Conversions">>)
         IN  AddRatio(AddRatio(df, "CPC", "Spend", "Clicks"), "CVR", "Conversions", "Clicks")

\* tables for the audience views: rows of (Age, Gender, Spend, Clicks,
\* Conversions, Impressions) with 30 clicks, 29 clicks, or spend and no
\* click; or the same rows without the Gender column
MaxAudienceRows == 2

AudienceRows ==
    {<<Str(a), Str(g), Num(m[1]), Num(m[2]), Num(m[3]), Num(100)>> :
        a \in {"18-24", "25-34"}, g \in {"female", "male"},
        m \in {<<60, 30, 3>>, <<29, 29, 1>>, <<40, 0, 0>>}}

WithoutGender(row) == <<row[1]>> \o SubSeq(row, 3, Len(row))

AudienceTables ==
    {[k |-> "df",
      cols |-> IF gender THEN <<"Age", "Gender", "Spend", "Clicks", "Conversions", "Impressions">>
               ELSE <<"Age", "Spend", "Clicks", "Conversions", "Impressions">>,
      rows |-> [r \in 1..Len(q) |->
                  [idx |-> r - 1, cells |-> IF gender THEN q[r] ELSE WithoutGender(q[r])]]] :
        q \in UNION {[1..m -> AudienceRows] : m \in 1..MaxAudienceRows}, gender \in BOOLEAN}

InitAudience ==
    /\ caller \in AudienceTables
    /\ files = <<>> /\ loaded = None /\ adf = None /\ view = None /\ probe = None

AudienceSummary ==
    /\ adf.k = "df"
    /\ view' = [name |-> "audience_summary", out |-> audience_summary(adf)]
    /\ UNCHANGED <<files, loaded, caller, adf, probe>>

NextAudience == Construct \/ AnalyzeConversionProb \/ AudienceSummary

SpecAudience == InitAudience /\ [][NextAudience]_vars

\* the columns that key a segment of df
SegmentCols(df) == IF HasCol(df, "Gender") THEN <<"Age", "Gender">> ELSE <<"Age">>

\* the sum of a column over all rows of df whose segment is that of row
SegmentTotal(df, out, row, col) ==
    FSum(SelectAt(Column(df, col),
                  {r \in 1..Len(df.rows) :
                      \A i \in 1..Len(SegmentCols(df)) :
                          Cell(df, df.rows[r], SegmentCols(df)[i])
                             = Cell(out, row, SegmentCols(df)[i])}))

\* C25: every segment returned by analyze_conversion_prob has at least
\* min_clicks clicks; its Clicks, Conversions and Spend are the sums over
\* all rows of the table in the segment; its CPC is that Spend over that
\* Clicks, and is the CPC audience_summary gives for the segment.
C25_SegmentTotalsOverAllRows ==
    (view # None /\ view.name = "analyze_conversion_prob") =>
        \A r \in 1..Len(view.out.rows) :
            LET row == view.out.rows[r]
                total(col) == SegmentTotal(adf, view.out, row, col)
            IN  /\ ~FLess(Cell(view.out, row, "Clicks"), Num(DefaultMinClicks))
                /\ \A col \in {"Clicks", "Conversions", "Spend"} :
                      Cell(view.out, row, col) = total(col)
                /\ Cell(view.out, row, "CPC") = FDiv(total("Spend"), total("Clicks"))
                /\ HasCol(adf, "Gender") =>
                      \E a \in 1..Len(audience_summary(adf).rows) :
                          LET arow == audience_summary(adf).rows[a]
                          IN  /\ Cell(audience_summary(adf), arow, "Age") = Cell(view.out, row, "Age")
                              /\ Cell(audience_summary(adf), arow, "Gender")
                                    = Cell(view.out, row, "Gender")
                              /\ Cell(audience_summary(adf), arow, "CPC")
                                    = Cell(view.out, row, "CPC")

----------------------------------------------------------------------------
(* The attribution flow as a graph *)

\* the platforms and the campaigns of the table, as node names
PlatformNames(df) == {AsStr(Cell(df, df.rows[r], "Platform")) : r \in 1..Len(df.rows)}
CampaignNames(df) == {AsStr(Cell(df, df.rows[r], "Campaign")) : r \in 1..Len(df.rows)}

\* the total weight of the edges of g into node i, and out of it
WeightInto(g, i) ==
    FSum(SelectAt(g.values, {e \in 1..Len(g.values) : g.targets[e] = i}))
WeightOutOf(g, i) ==
    FSum(SelectAt(g.values, {e \in 1..Len(g.values) : g.sources[e] = i}))

\* C26: every edge of the attribution flow goes from a platform node to a
\* campaign node or from a campaign node to Converted or Lost; no edge
\* starts and ends at one node; Converted and Lost have no outgoing edge; and
\* the weight into every campaign node equals the weight out of it.
C26_AttributionLayeredAndConserving ==
    (view # None /\ view.name = "analyze_attribution" /\ HasCol(adf, "Campaign")) =>
        LET g == view.out
            name(i) == g.nodes[i + 1]
        IN  /\ \A e \in 1..Len(g.values) :
                  /\ \/ /\ name(g.sources[e]) \in PlatformNames(adf)
                        /\ name(g.targets[e]) \in CampaignNames(adf)
                     \/ /\ name(g.sources[e]) \in CampaignNames(adf)
                        /\ name(g.targets[e]) \in {"Converted", "Lost"}
                  /\ g.sources[e] # g.targets[e]
                  /\ name(g.sources[e]) \notin {"Converted", "Lost"}
            /\ \A i \in 0..(Len(g.nodes) - 1) :
                  name(i) \in CampaignNames(adf) => WeightInto(g, i) = WeightOutOf(g, i)

====
